---- MODULE Spec2Model ----
(***************************************************************************)
(* Free-camera input handling of the graphics engine: the InputsCommanded  *)
(* accumulator (input.rs), the camera motion integrator adjust_camera      *)
(* (input.rs), the per-frame camera step of GraphicsState::render          *)
(* (graphics.rs) and the event loop that drives them (system.rs).          *)
(*                                                                         *)
(* Numbers.  The code computes in f32.  The model computes exactly, on a   *)
(* lattice on which every intermediate value is an integer:                *)
(*   - lengths, sensitivities, dt (seconds) are integers;                  *)
(*   - mouse deltas are counted in units of 5e-6, so the threshold         *)
(*     EPS = 0.00001 of the code is 2;                                     *)
(*   - angles are counted in half turns (pi radians), so sin and cos of    *)
(*     angle/2 take the values 0, 1, -1 (sin_half, cos_half);              *)
(*   - orientations are the unit quaternions 1, i, j, k and negatives.     *)
(***************************************************************************)
EXTENDS Integers, FiniteSets, Sequences, TLC

VARIABLES
    inputs_commanded,   \* GraphicsState.inputs_commanded : InputsCommanded
    camera,             \* GraphicsState.scene.camera : position, orientation
    camera_buf,         \* GraphicsState.camera_buf : the camera last written
    input_settings,     \* GraphicsState.input_settings : InputSettings
    ui_settings,        \* GraphicsState.ui_settings : UiSettings
    mouse_in_gui,       \* SystemState.mouse_in_gui
    surface_cfg,        \* SystemState.surface_cfg : width, height
    last_frame,         \* what the camera step of the last redraw did
    call                \* the last call of a function applied on its own

vars == <<inputs_commanded, camera, camera_buf, input_settings, ui_settings,
          mouse_in_gui, surface_cfg, last_frame, call>>

(***************************************************************************)
(* Bounds of the model.                                                    *)
(***************************************************************************)
\* Largest magnitude an accumulated mouse delta reaches (units of 5e-6).
MaxDelta == 3
\* Largest number of boolean flags set at once in an input state.
MaxHeld == 2
\* Largest |x| + |y| + |z| of a camera position.
MaxPos == 1
\* Largest frame time dt, in seconds.
MaxDt == 1

(***************************************************************************)
(* lin_alg.rs: Vec3 and Quaternion.                                        *)
(***************************************************************************)
abs(n) == IF n < 0 THEN -n ELSE n

Vec3(x, y, z) == [x |-> x, y |-> y, z |-> z]

new_zero == Vec3(0, 0, 0)

vec_add(a, b) == Vec3(a.x + b.x, a.y + b.y, a.z + b.z)

vec_scale(v, s) == Vec3(v.x * s, v.y * s, v.z * s)

Quaternion(w, x, y, z) == [w |-> w, x |-> x, y |-> y, z |-> z]

new_identity == Quaternion(1, 0, 0, 0)

\* The Hamilton product with the sign of the y * z term of x turned.
quat_mul_sign_turned(a, b) ==
    Quaternion(a.w * b.w - a.x * b.x - a.y * b.y - a.z * b.z,
               a.w * b.x + a.x * b.w - a.y * b.z - a.z * b.y,
               a.w * b.y - a.x * b.z + a.y * b.w + a.z * b.x,
               a.w * b.z + a.x * b.y - a.y * b.x + a.z * b.w)

\* impl Mul<Self> for Quaternion: the Hamilton product a * b.
quat_mul(a, b) ==
    Quaternion(a.w * b.w - a.x * b.x - a.y * b.y - a.z * b.z,
               a.w * b.x + a.x * b.w + a.y * b.z - a.z * b.y,
               a.w * b.y - a.x * b.z + a.y * b.w + a.z * b.x,
               a.w * b.z + a.x * b.y - a.y * b.x + a.z * b.w)

\* impl Mul<Vec3> for Quaternion: q * (0, v).
quat_mul_vec(q, v) ==
    Quaternion(-q.x * v.x - q.y * v.y - q.z * v.z,
               q.w * v.x + q.y * v.z - q.z * v.y,
               q.w * v.y - q.x * v.z + q.z * v.x,
               q.w * v.z + q.x * v.y - q.y * v.x)

\* The quaternion with only its x negated.
quat_inverse_x_only(q) == Quaternion(q.w, -q.x, q.y, q.z)

\* Quaternion::inverse: the conjugate.
quat_inverse(q) == Quaternion(q.w, -q.x, -q.y, -q.z)

\* Quaternion::to_vec: the vector part.
to_vec(q) == Vec3(q.x, q.y, q.z)

\* Quaternion::rotate_vec: (q * v * q^-1).to_vec().
rotate_vec(q, v) == to_vec(quat_mul(quat_mul_vec(q, v), quat_inverse(q)))

\* (angle / 2).cos() for an angle of `angle` half turns.
cos_half(angle) ==
    CASE angle % 4 = 0 -> 1
      [] angle % 4 = 1 -> 0
      [] angle % 4 = 2 -> -1
      [] angle % 4 = 3 -> 0

\* (angle / 2).sin() for an angle of `angle` half turns.
sin_half(angle) ==
    CASE angle % 4 = 0 -> 0
      [] angle % 4 = 1 -> 1
      [] angle % 4 = 2 -> 0
      [] angle % 4 = 3 -> -1

\* Quaternion::from_axis_angle.
from_axis_angle(axis, angle) ==
    LET factor == sin_half(angle)
    IN  Quaternion(cos_half(angle),
                   axis.x * factor, axis.y * factor, axis.z * factor)

(***************************************************************************)
(* graphics.rs: the world axes.                                            *)
(***************************************************************************)
UP_VEC == Vec3(0, 1, 0)

RIGHT_VEC == Vec3(1, 0, 0)

FWD_VEC == Vec3(0, 0, 1)

(***************************************************************************)
(* input.rs: InputsCommanded.                                              *)
(***************************************************************************)
MOUSE_0_ID == 0

MOUSE_1_ID == 1

\* const EPS: f32 = 0.00001, in units of 5e-6.
EPS == 2

\* The ten boolean fields of InputsCommanded.
Flags == {"fwd", "back", "left", "right", "up", "down",
          "roll_ccw", "roll_cw", "run", "free_look"}

\* #[derive(Default)] for InputsCommanded.
InputsDefault ==
    [fwd |-> FALSE, back |-> FALSE, left |-> FALSE, right |-> FALSE,
     up |-> FALSE, down |-> FALSE, roll_ccw |-> FALSE, roll_cw |-> FALSE,
     mouse_delta_x |-> 0, mouse_delta_y |-> 0,
     run |-> FALSE, free_look |-> FALSE]

\* inputs_present with the run modifier counted as an input.
inputs_present_with_run(inputs) ==
    \/ inputs.fwd
    \/ inputs.back
    \/ inputs.left
    \/ inputs.right
    \/ inputs.up
    \/ inputs.down
    \/ inputs.roll_ccw
    \/ inputs.roll_cw
    \/ inputs.run
    \/ abs(inputs.mouse_delta_x) > EPS
    \/ abs(inputs.mouse_delta_y) > EPS

\* InputsCommanded::inputs_present.
inputs_present(inputs) ==
    \/ inputs.fwd
    \/ inputs.back
    \/ inputs.left
    \/ inputs.right
    \/ inputs.up
    \/ inputs.down
    \/ inputs.roll_ccw
    \/ inputs.roll_cw
    \/ abs(inputs.mouse_delta_x) > EPS
    \/ abs(inputs.mouse_delta_y) > EPS

(***************************************************************************)
(* Device events (winit DeviceEvent), as add_input_cmd tells them apart.   *)
(***************************************************************************)
\* The nine key codes add_input_cmd matches, and one it does not.
KeyCodes == {"KeyW", "KeyS", "KeyA", "KeyD", "Space", "KeyC", "KeyQ", "KeyE",
             "ShiftLeft", "KeyX"}

ElementStates == {"Pressed", "Released"}

KeyEvent(code, state) == [type |-> "Key", code |-> code, state |-> state]

ButtonEvent(button, state) ==
    [type |-> "Button", button |-> button, state |-> state]

MotionEvent(dx, dy) == [type |-> "MouseMotion", dx |-> dx, dy |-> dy]

\* Any other DeviceEvent variant (MouseWheel, Added, ...).
OtherEvent == [type |-> "Other"]

\* The mouse motions a device reports: a small step in x, a large one in -y.
MotionDeltas == {<<1, 0>>, <<0, -3>>}

DeviceEvents ==
    {KeyEvent(c, s) : c \in KeyCodes, s \in ElementStates}
    \cup {ButtonEvent(b, s) : b \in {MOUSE_0_ID, MOUSE_1_ID}, s \in ElementStates}
    \cup {MotionEvent(d[1], d[2]) : d \in MotionDeltas}
    \cup {OtherEvent}

\* The keys on the keyboard of the running engine: a pair of opposing
\* direction keys, a roll key, the run key and an unbound key.
SystemKeys == {"KeyW", "KeyS", "KeyQ", "ShiftLeft", "KeyX"}

\* The device events the running engine receives.
SystemEvents ==
    {KeyEvent(c, s) : c \in SystemKeys, s \in ElementStates}
    \cup {ButtonEvent(MOUSE_0_ID, s) : s \in ElementStates}
    \cup {MotionEvent(d[1], d[2]) : d \in MotionDeltas}

\* key_flag with the KeyS arm bound to the flag of the KeyW arm.
key_flag_s_as_w(code) ==
    CASE code = "KeyW" -> "fwd"
      [] code = "KeyS" -> "fwd"
      [] code = "KeyA" -> "left"
      [] code = "KeyD" -> "right"
      [] code = "Space" -> "up"
      [] code = "KeyC" -> "down"
      [] code = "KeyQ" -> "roll_ccw"
      [] code = "KeyE" -> "roll_cw"
      [] code = "ShiftLeft" -> "run"
      [] OTHER -> "none"

\* The match on the key code in add_input_cmd: the flag a key is bound to.
key_flag(code) ==
    CASE code = "KeyW" -> "fwd"
      [] code = "KeyS" -> "back"
      [] code = "KeyA" -> "left"
      [] code = "KeyD" -> "right"
      [] code = "Space" -> "up"
      [] code = "KeyC" -> "down"
      [] code = "KeyQ" -> "roll_ccw"
      [] code = "KeyE" -> "roll_cw"
      [] code = "ShiftLeft" -> "run"
      [] OTHER -> "none"

\* add_input_cmd with free_look set by the release of button 0 as well.
add_input_cmd_release_looks(event, inputs) ==
    CASE event.type = "Key" ->
            IF key_flag(event.code) = "none"
            THEN inputs
            ELSE IF event.state = "Pressed"
                 THEN [inputs EXCEPT ![key_flag(event.code)] = TRUE]
                 ELSE [inputs EXCEPT ![key_flag(event.code)] = FALSE]
      [] event.type = "Button" ->
            IF event.button = MOUSE_0_ID
            THEN [inputs EXCEPT !.free_look = TRUE]
            ELSE inputs
      [] event.type = "MouseMotion" ->
            [inputs EXCEPT !.mouse_delta_x = @ + event.dx,
                           !.mouse_delta_y = @ + event.dy]
      [] OTHER -> inputs

\* add_input_cmd: the inputs after one device event.
add_input_cmd(event, inputs) ==
    CASE event.type = "Key" ->
            IF key_flag(event.code) = "none"
            THEN inputs
            ELSE IF event.state = "Pressed"
                 THEN [inputs EXCEPT ![key_flag(event.code)] = TRUE]
                 ELSE [inputs EXCEPT ![key_flag(event.code)] = FALSE]
      [] event.type = "Button" ->
            IF event.button = MOUSE_0_ID
            THEN [inputs EXCEPT !.free_look = (event.state = "Pressed")]
            ELSE inputs
      [] event.type = "MouseMotion" ->
            [inputs EXCEPT !.mouse_delta_x = @ + event.dx,
                           !.mouse_delta_y = @ + event.dy]
      [] OTHER -> inputs

(***************************************************************************)
(* input.rs: adjust_camera.                                                *)
(***************************************************************************)
\* move_amt with run_factor applied whether or not run is held.
move_amt_always_run(inputs, settings, dt) ==
    settings.move_sens * dt * settings.run_factor

\* move_amt without `if inputs.run`.
move_amt_never_run(inputs, settings, dt) == settings.move_sens * dt

\* move_amt: move_sens * dt, times run_factor when run is held.
move_amt(inputs, settings, dt) ==
    IF inputs.run
    THEN settings.move_sens * dt * settings.run_factor
    ELSE settings.move_sens * dt

\* rotate_amt: rotate_sens * dt.
rotate_amt(settings, dt) == settings.rotate_sens * dt

\* rotate_key_amt: rotate_key_sens * dt, times run_factor when run is held.
rotate_key_amt(inputs, settings, dt) ==
    IF inputs.run
    THEN settings.rotate_key_sens * dt * settings.run_factor
    ELSE settings.rotate_key_sens * dt

\* movement_vec with `if` in place of each `else if`: opposing flags cancel.
movement_vec_no_else(inputs, amt) ==
    Vec3((IF inputs.right THEN amt ELSE 0) - (IF inputs.left THEN amt ELSE 0),
         (IF inputs.up THEN amt ELSE 0) - (IF inputs.down THEN amt ELSE 0),
         (IF inputs.fwd THEN amt ELSE 0) - (IF inputs.back THEN amt ELSE 0))

\* movement_vec after the three if / else if pairs.
movement_vec(inputs, amt) ==
    Vec3(IF inputs.right THEN amt ELSE IF inputs.left THEN -amt ELSE 0,
         IF inputs.up THEN amt ELSE IF inputs.down THEN -amt ELSE 0,
         IF inputs.fwd THEN amt ELSE IF inputs.back THEN -amt ELSE 0)

\* cam_moved after the three if / else if pairs.
cam_moved(inputs) ==
    \/ inputs.fwd \/ inputs.back
    \/ inputs.right \/ inputs.left
    \/ inputs.up \/ inputs.down

\* rotation after the roll keys: about the camera's forward axis.
roll_rotation(inputs, fwd, key_amt) ==
    IF inputs.roll_cw THEN from_axis_angle(fwd, -key_amt)
    ELSE IF inputs.roll_ccw THEN from_axis_angle(fwd, key_amt)
    ELSE new_identity

\* free_look_active with >= in place of >.
free_look_active_at_eps(inputs) ==
    /\ inputs.free_look
    /\ \/ abs(inputs.mouse_delta_x) >= EPS
       \/ abs(inputs.mouse_delta_y) >= EPS

\* The condition of the free-look branch.
free_look_active(inputs) ==
    /\ inputs.free_look
    /\ \/ abs(inputs.mouse_delta_x) > EPS
       \/ abs(inputs.mouse_delta_y) > EPS

\* rotation after the free-look branch: yaw * pitch * roll.
look_rotation(inputs, up, right, rot_amt, rotation) ==
    IF free_look_active(inputs)
    THEN quat_mul(quat_mul(from_axis_angle(up, -inputs.mouse_delta_x * rot_amt),
                           from_axis_angle(right, -inputs.mouse_delta_y * rot_amt)),
                  rotation)
    ELSE rotation

\* cam_rotated at the end of adjust_camera.
cam_rotated(inputs) ==
    inputs.roll_cw \/ inputs.roll_ccw \/ free_look_active(inputs)

\* cam_changed without `|| cam_rotated`.
cam_changed_moved_only(inputs) == cam_moved(inputs)

\* The value adjust_camera returns: cam_moved || cam_rotated.
cam_changed(inputs) == cam_moved(inputs) \/ cam_rotated(inputs)

\* adjust_camera with the orientation updated first, to
\* cam.orientation * rotation, and the position moved through the new
\* orientation.
adjust_camera_rotate_first(cam, inputs, settings, dt) ==
    LET fwd == rotate_vec(cam.orientation, FWD_VEC)
        up == rotate_vec(cam.orientation, vec_scale(UP_VEC, -1))
        right == rotate_vec(cam.orientation, vec_scale(RIGHT_VEC, -1))
        mv == movement_vec(inputs, move_amt(inputs, settings, dt))
        rotation ==
            look_rotation(inputs, up, right, rotate_amt(settings, dt),
                roll_rotation(inputs, fwd, rotate_key_amt(inputs, settings, dt)))
        orientation == IF cam_rotated(inputs)
                       THEN quat_mul(cam.orientation, rotation)
                       ELSE cam.orientation
        position == IF cam_moved(inputs)
                    THEN vec_add(cam.position, rotate_vec(orientation, mv))
                    ELSE cam.position
    IN  [cam |-> [position |-> position, orientation |-> orientation],
         changed |-> cam_changed(inputs)]

\* adjust_camera: the camera after the call, and the value returned.
adjust_camera(cam, inputs, settings, dt) ==
    LET fwd == rotate_vec(cam.orientation, FWD_VEC)
        up == rotate_vec(cam.orientation, vec_scale(UP_VEC, -1))
        right == rotate_vec(cam.orientation, vec_scale(RIGHT_VEC, -1))
        mv == movement_vec(inputs, move_amt(inputs, settings, dt))
        rotation ==
            look_rotation(inputs, up, right, rotate_amt(settings, dt),
                roll_rotation(inputs, fwd, rotate_key_amt(inputs, settings, dt)))
        position == IF cam_moved(inputs)
                    THEN vec_add(cam.position, rotate_vec(cam.orientation, mv))
                    ELSE cam.position
        orientation == IF cam_rotated(inputs)
                       THEN quat_mul(rotation, cam.orientation)
                       ELSE cam.orientation
    IN  [cam |-> [position |-> position, orientation |-> orientation],
         changed |-> cam_changed(inputs)]

(***************************************************************************)
(* types.rs, camera.rs: control schemes, settings, the camera's bytes.     *)
(***************************************************************************)
ControlSchemes == {"None", "FreeCamera", "Fps", "Arc"}

\* The unit quaternions with integer components.
Orientations ==
    {Quaternion(s, 0, 0, 0) : s \in {1, -1}}
    \cup {Quaternion(0, s, 0, 0) : s \in {1, -1}}
    \cup {Quaternion(0, 0, s, 0) : s \in {1, -1}}
    \cup {Quaternion(0, 0, 0, s) : s \in {1, -1}}

norm1(v) == abs(v.x) + abs(v.y) + abs(v.z)

Positions ==
    {v \in [x : -MaxPos..MaxPos, y : -MaxPos..MaxPos, z : -MaxPos..MaxPos] :
        norm1(v) <= MaxPos}

\* The camera the application's Scene starts with.
InitCamera == [position |-> new_zero, orientation |-> new_identity]

\* The camera's uniform: the view (fixed by orientation and position) and the
\* position.
to_bytes(cam) ==
    [proj_view |-> <<cam.orientation, cam.position>>,
     position |-> cam.position]

(***************************************************************************)
(* The application's handlers (render_handler, event_handler, gui_handler).*)
(* A handler may leave the scene alone or place the camera somewhere, and  *)
(* returns EngineUpdates with camera set or not.                           *)
(***************************************************************************)
AppChoices == {"none", "move", "move_silent"}

\* Where the application places the camera when it moves it.
AppCamera == [position |-> Vec3(0, 1, 0), orientation |-> Quaternion(0, 0, 1, 0)]

\* The scene camera after a handler ran.
app_camera(choice, cam) ==
    IF choice \in {"move", "move_silent"} THEN AppCamera ELSE cam

\* EngineUpdates.camera as the handler returned it.
app_updates_camera(choice) == choice = "move"

\* GraphicsState::update_camera: the buffer after the write.
update_camera(cam) == to_bytes(cam)

\* A handler call followed by `if engine_updates.camera { update_camera }`.
after_handler(choice, cam, buf) ==
    [camera |-> app_camera(choice, cam),
     camera_buf |-> IF app_updates_camera(choice)
                    THEN update_camera(app_camera(choice, cam))
                    ELSE buf]

(***************************************************************************)
(* graphics.rs: handle_input and the camera step of render.                *)
(***************************************************************************)
\* handle_input without the match on the control scheme.
handle_input_any_scheme(event, inputs, settings) ==
    add_input_cmd(event, inputs)

\* GraphicsState::handle_input.
handle_input(event, inputs, settings) ==
    IF settings.initial_controls = "FreeCamera"
    THEN add_input_cmd(event, inputs)
    ELSE inputs

\* last_frame when the state is not the one a frame left.
NoFrame ==
    [rendered |-> FALSE, invoked |-> FALSE, changed |-> FALSE,
     uploaded |-> FALSE, zeroed |-> FALSE]

\* camera_step_runs without the inputs_present test.
camera_step_runs_unguarded(inputs, settings) ==
    settings.initial_controls = "FreeCamera"

\* The guard of the camera step of render: the control scheme is FreeCamera
\* and there are inputs.
camera_step_runs(inputs, settings) ==
    /\ settings.initial_controls = "FreeCamera"
    /\ inputs_present(inputs)

\* reset_mouse that resets mouse_delta_x twice and mouse_delta_y never.
reset_mouse_x_only(inputs) == [inputs EXCEPT !.mouse_delta_x = 0]

\* reset_mouse that resets the whole of inputs_commanded.
reset_mouse_all(inputs) == InputsDefault

\* "Reset the mouse inputs; keyboard inputs are reset by their release event."
reset_mouse(inputs) ==
    [inputs EXCEPT !.mouse_delta_x = 0, !.mouse_delta_y = 0]

\* The first statement of render: the match on initial_controls.  Gives the
\* camera, the camera buffer and the inputs after it, and what it did: the
\* value of adjust_camera is dropped, the buffer written, the deltas reset.
camera_step(cam, buf, inputs, settings, dt) ==
    IF camera_step_runs(inputs, settings)
    THEN LET r == adjust_camera(cam, inputs, settings, dt)
         IN  [camera |-> r.cam,
              camera_buf |-> to_bytes(r.cam),
              inputs |-> reset_mouse(inputs),
              frame |-> [rendered |-> TRUE, invoked |-> TRUE,
                         changed |-> r.changed,
                         uploaded |-> TRUE, zeroed |-> TRUE]]
    ELSE [camera |-> cam, camera_buf |-> buf, inputs |-> inputs,
          frame |-> [NoFrame EXCEPT !.rendered = TRUE]]

\* GraphicsState::render: the camera step, then the gui_handler and its
\* updates; the draw submission reads camera_buf.
render(cam, buf, inputs, settings, dt, gui_choice) ==
    LET s == camera_step(cam, buf, inputs, settings, dt)
        g == after_handler(gui_choice, s.camera, s.camera_buf)
    IN  [camera |-> g.camera, camera_buf |-> g.camera_buf,
         inputs |-> s.inputs, frame |-> s.frame]

(***************************************************************************)
(* system.rs: the event loop.                                              *)
(***************************************************************************)
NoCall == [op |-> "none"]

CountSet(inputs) == Cardinality({f \in Flags : inputs[f]})

\* The inputs the bounds of the model admit.
InBounds(inputs) ==
    /\ CountSet(inputs) <= MaxHeld
    /\ abs(inputs.mouse_delta_x) <= MaxDelta
    /\ abs(inputs.mouse_delta_y) <= MaxDelta

\* The settings of the running engine, one per control scheme: one length
\* unit per second, twice that when running, one full turn per second for the
\* roll keys and per mouse unit.
SystemSettings ==
    {[move_sens |-> 1, rotate_sens |-> 2, rotate_key_sens |-> 2,
      run_factor |-> 2, initial_controls |-> c] : c \in ControlSchemes}

\* The surface configuration State::new makes from the window's inner size.
InitSurface == [width |-> 3, height |-> 2]

\* State::new and GraphicsState::new.
Init ==
    /\ inputs_commanded = InputsDefault
    /\ camera = InitCamera
    /\ camera_buf = to_bytes(InitCamera)
    /\ input_settings \in SystemSettings
    /\ ui_settings = [size |-> 1]
    /\ mouse_in_gui = FALSE
    /\ surface_cfg = InitSurface
    /\ last_frame = NoFrame
    /\ call = NoCall

\* Event::DeviceEvent.
DeviceEvent ==
    /\ ~mouse_in_gui
    /\ \E event \in SystemEvents, choice \in AppChoices :
          /\ inputs_commanded' =
                handle_input(event, inputs_commanded, input_settings)
          /\ InBounds(inputs_commanded')
          /\ \E h \in {after_handler(choice, camera, camera_buf)} :
                /\ camera' = h.camera
                /\ camera_buf' = h.camera_buf
    /\ last_frame' = NoFrame
    /\ UNCHANGED <<input_settings, ui_settings, mouse_in_gui, call,
                   surface_cfg>>

\* Event::DeviceEvent while mouse_in_gui: the event is dropped.
DeviceEventDropped ==
    /\ mouse_in_gui
    /\ last_frame' = NoFrame
    /\ UNCHANGED <<inputs_commanded, camera, camera_buf, input_settings,
                   ui_settings, mouse_in_gui, call, surface_cfg>>

\* WindowEvent::CursorMoved.
CursorMoved ==
    /\ \E x \in 0..1 :
          IF x < ui_settings.size
          THEN /\ mouse_in_gui' = TRUE
               /\ inputs_commanded' = InputsDefault
          ELSE /\ mouse_in_gui' = FALSE
               /\ UNCHANGED inputs_commanded
    /\ last_frame' = NoFrame
    /\ UNCHANGED <<camera, camera_buf, input_settings, ui_settings, call,
                   surface_cfg>>

\* WindowEvent::Occluded, Focused, and Resized to the size the surface has:
\* free_look is cleared.
ClearFreeLook ==
    /\ inputs_commanded' = [inputs_commanded EXCEPT !.free_look = FALSE]
    /\ last_frame' = NoFrame
    /\ UNCHANGED <<camera, camera_buf, input_settings, ui_settings,
                   mouse_in_gui, call, surface_cfg>>

\* WindowEvent::Moved.
Moved ==
    /\ mouse_in_gui' = TRUE
    /\ inputs_commanded' = [inputs_commanded EXCEPT !.free_look = FALSE]
    /\ last_frame' = NoFrame
    /\ UNCHANGED <<camera, camera_buf, input_settings, ui_settings, call,
                   surface_cfg>>

\* Event::RedrawRequested: render_handler and its updates, then render when
\* the surface yields a texture.
RedrawRequested ==
    /\ \E dt \in 0..MaxDt, choice \in AppChoices, texture_ok \in BOOLEAN :
          \E h \in {after_handler(choice, camera, camera_buf)} :
              IF texture_ok
              THEN \E gui_choice \in AppChoices :
                      \E r \in {render(h.camera, h.camera_buf, inputs_commanded,
                                       input_settings, dt, gui_choice)} :
                          /\ camera' = r.camera
                          /\ camera_buf' = r.camera_buf
                          /\ inputs_commanded' = r.inputs
                          /\ last_frame' = r.frame
              ELSE /\ camera' = h.camera
                   /\ camera_buf' = h.camera_buf
                   /\ last_frame' = NoFrame
                   /\ UNCHANGED inputs_commanded
    /\ camera'.position \in Positions
    /\ UNCHANGED <<input_settings, ui_settings, mouse_in_gui, call,
                   surface_cfg>>

Next ==
    \/ DeviceEvent
    \/ DeviceEventDropped
    \/ CursorMoved
    \/ ClearFreeLook
    \/ Moved
    \/ RedrawRequested

Spec == Init /\ [][Next]_vars

(***************************************************************************)
(* add_input_cmd and inputs_present applied on their own: one call on an   *)
(* input state drawn from a bounded set.                                   *)
(***************************************************************************)
\* The flag settings with at most MaxHeld flags set.
FlagSettings ==
    {f \in [Flags -> BOOLEAN] : Cardinality({n \in Flags : f[n]}) <= MaxHeld}

\* Accumulated mouse deltas: zero, below, at and above EPS, of either sign.
DeltaValues == {-3, -1, 0, 2, 3}

InputsOf(f, dx, dy) ==
    [fwd |-> f["fwd"], back |-> f["back"], left |-> f["left"],
     right |-> f["right"], up |-> f["up"], down |-> f["down"],
     roll_ccw |-> f["roll_ccw"], roll_cw |-> f["roll_cw"],
     mouse_delta_x |-> dx, mouse_delta_y |-> dy,
     run |-> f["run"], free_look |-> f["free_look"]]

InitInput ==
    /\ inputs_commanded \in
          {InputsOf(f, dx, dy) : f \in FlagSettings,
                                 dx \in DeltaValues, dy \in DeltaValues}
    /\ camera = InitCamera
    /\ camera_buf = to_bytes(InitCamera)
    /\ input_settings \in {st \in SystemSettings : st.initial_controls = "FreeCamera"}
    /\ ui_settings = [size |-> 1]
    /\ mouse_in_gui = FALSE
    /\ surface_cfg = InitSurface
    /\ last_frame = NoFrame
    /\ call = NoCall

\* One call of add_input_cmd.
CallAddInputCmd ==
    /\ call.op = "none"
    /\ \E event \in DeviceEvents :
          /\ inputs_commanded' = add_input_cmd(event, inputs_commanded)
          /\ call' = [op |-> "add_input_cmd", event |-> event,
                      before |-> inputs_commanded]
    /\ UNCHANGED <<camera, camera_buf, input_settings, ui_settings,
                   mouse_in_gui, last_frame, surface_cfg>>

\* One call of inputs_present.
CallInputsPresent ==
    /\ call.op = "none"
    /\ call' = [op |-> "inputs_present", ret |-> inputs_present(inputs_commanded)]
    /\ UNCHANGED <<inputs_commanded, camera, camera_buf, input_settings,
                   ui_settings, mouse_in_gui, last_frame, surface_cfg>>

NextInput == CallAddInputCmd \/ CallInputsPresent

SpecInput == InitInput /\ [][NextInput]_vars

(***************************************************************************)
(* adjust_camera applied on its own: one call on a camera, an input state, *)
(* settings and a dt drawn from bounded sets.                              *)
(***************************************************************************)
\* Accumulated mouse deltas (x, y) of a call: none, both within EPS, one or
\* both beyond it.
AdjustDeltas ==
    {<<0, 0>>, <<1, 2>>, <<2, -1>>, <<3, 0>>, <<0, -3>>, <<-3, 3>>}

\* Cameras of a call: every orientation at the origin, and the application's.
AdjustCameras ==
    {[position |-> new_zero, orientation |-> q] : q \in Orientations}
    \cup {AppCamera}

\* Settings of a call: sensitivities zero or one, run factor one or two.
AdjustSettings ==
    [move_sens : {0, 1}, rotate_sens : {0, 1}, rotate_key_sens : {0, 1},
     run_factor : {1, 2}, initial_controls : {"FreeCamera"}]

InitAdjust ==
    /\ inputs_commanded \in
          {InputsOf(f, d[1], d[2]) : f \in FlagSettings, d \in AdjustDeltas}
    /\ camera \in AdjustCameras
    /\ camera_buf = to_bytes(camera)
    /\ input_settings \in AdjustSettings
    /\ ui_settings = [size |-> 1]
    /\ mouse_in_gui = FALSE
    /\ surface_cfg = InitSurface
    /\ last_frame = NoFrame
    /\ call = NoCall

\* One call of adjust_camera.
CallAdjustCamera ==
    /\ call.op = "none"
    /\ \E dt \in 0..MaxDt :
          \E r \in {adjust_camera(camera, inputs_commanded, input_settings, dt)} :
              /\ camera' = r.cam
              /\ call' = [op |-> "adjust_camera", before |-> camera,
                          dt |-> dt, ret |-> r.changed]
    /\ UNCHANGED <<inputs_commanded, camera_buf, input_settings, ui_settings,
                   mouse_in_gui, last_frame, surface_cfg>>

NextAdjust == CallAdjustCamera

SpecAdjust == InitAdjust /\ [][NextAdjust]_vars

TypeOK ==
    /\ inputs_commanded \in
          [fwd : BOOLEAN, back : BOOLEAN, left : BOOLEAN, right : BOOLEAN,
           up : BOOLEAN, down : BOOLEAN, roll_ccw : BOOLEAN, roll_cw : BOOLEAN,
           mouse_delta_x : -MaxDelta..MaxDelta,
           mouse_delta_y : -MaxDelta..MaxDelta,
           run : BOOLEAN, free_look : BOOLEAN]
    /\ camera.position \in Positions
    /\ camera.orientation \in Orientations
    /\ mouse_in_gui \in BOOLEAN

(***************************************************************************)
(* Properties.                                                             *)
(***************************************************************************)
\* The key or button a flag is controlled by.
Binding ==
    [fwd |-> KeyEvent("KeyW", "Pressed"), back |-> KeyEvent("KeyS", "Pressed"),
     left |-> KeyEvent("KeyA", "Pressed"), right |-> KeyEvent("KeyD", "Pressed"),
     up |-> KeyEvent("Space", "Pressed"), down |-> KeyEvent("KeyC", "Pressed"),
     roll_ccw |-> KeyEvent("KeyQ", "Pressed"),
     roll_cw |-> KeyEvent("KeyE", "Pressed"),
     run |-> KeyEvent("ShiftLeft", "Pressed"),
     free_look |-> ButtonEvent(MOUSE_0_ID, "Pressed")]

\* C1: after add_input_cmd processed an event, each of the ten flags is true
\* if the event is the press of its key or button, false if it is the release
\* of it, and as it was before for every other event.
C1_PressSetsReleaseClears ==
    call.op = "add_input_cmd" =>
        \A f \in Flags :
            IF call.event = Binding[f]
            THEN inputs_commanded[f] = TRUE
            ELSE IF call.event = [Binding[f] EXCEPT !.state = "Released"]
                 THEN inputs_commanded[f] = FALSE
                 ELSE inputs_commanded[f] = call.before[f]

\* A release of KeyW cleared fwd and left the set flag back alone.
C1_Witness ==
    /\ call.op = "add_input_cmd"
    /\ call.event = KeyEvent("KeyW", "Released")
    /\ call.before.fwd /\ call.before.back
    /\ ~inputs_commanded.fwd /\ inputs_commanded.back

\* The eight direction and roll flags.
MotionFlags == {"fwd", "back", "left", "right", "up", "down",
                "roll_ccw", "roll_cw"}

\* C9: inputs_present returns true exactly when one of the eight direction
\* and roll flags is set or a mouse delta exceeds EPS in magnitude; run and
\* free_look have no part in it.
C9_InputsPresent ==
    call.op = "inputs_present" =>
        (call.ret <=>
            \/ \E f \in MotionFlags : inputs_commanded[f]
            \/ inputs_commanded.mouse_delta_x > EPS
            \/ inputs_commanded.mouse_delta_x < -EPS
            \/ inputs_commanded.mouse_delta_y > EPS
            \/ inputs_commanded.mouse_delta_y < -EPS)

\* inputs_present returned false with both modifiers held and a delta at EPS.
C9_Witness ==
    /\ call.op = "inputs_present"
    /\ ~call.ret
    /\ inputs_commanded.run /\ inputs_commanded.free_look
    /\ inputs_commanded.mouse_delta_x = EPS

\* The camera differs from the one adjust_camera was called on.
CameraDiffers ==
    \/ camera.position # call.before.position
    \/ camera.orientation # call.before.orientation

\* The inputs command a movement or a rotation.
Commanded ==
    \/ \E f \in MotionFlags : inputs_commanded[f]
    \/ /\ inputs_commanded.free_look
       /\ \/ inputs_commanded.mouse_delta_x > EPS
          \/ inputs_commanded.mouse_delta_x < -EPS
          \/ inputs_commanded.mouse_delta_y > EPS
          \/ inputs_commanded.mouse_delta_y < -EPS

C5_EpsilonGating ==
    call.op = "adjust_camera" =>
        LET within == /\ inputs_commanded.mouse_delta_x <= EPS
                      /\ inputs_commanded.mouse_delta_x >= -EPS
                      /\ inputs_commanded.mouse_delta_y <= EPS
                      /\ inputs_commanded.mouse_delta_y >= -EPS
        IN  /\ (/\ \A f \in MotionFlags : ~inputs_commanded[f]
                /\ ~inputs_commanded.free_look \/ within)
               => ~call.ret /\ camera = call.before
            /\ (/\ ~inputs_commanded.roll_cw /\ ~inputs_commanded.roll_ccw
                /\ camera.orientation # call.before.orientation)
               => inputs_commanded.free_look /\ ~within

\* free_look is held with deltas within EPS, not both zero: the call returned
\* false at a dt and sensitivities that would have turned the camera.
C5_Witness ==
    /\ call.op = "adjust_camera"
    /\ ~call.ret /\ camera = call.before
    /\ inputs_commanded.free_look
    /\ inputs_commanded.mouse_delta_x = 1 /\ inputs_commanded.mouse_delta_y = EPS
    /\ call.dt = 1 /\ input_settings.rotate_sens = 1

\* The opposing pairs, the winning flag first.
OpposingPairs ==
    {<<"fwd", "back">>, <<"right", "left">>, <<"up", "down">>,
     <<"roll_cw", "roll_ccw">>}

\* C6: with both flags of an opposing pair set, adjust_camera gives the camera
\* and the return value it gives with the second flag cleared.
C6_FirstOfPairWins ==
    call.op = "adjust_camera" =>
        \A p \in OpposingPairs :
            (inputs_commanded[p[1]] /\ inputs_commanded[p[2]]) =>
                LET r == adjust_camera(call.before,
                                       [inputs_commanded EXCEPT ![p[2]] = FALSE],
                                       input_settings, call.dt)
                IN  r.cam = camera /\ r.changed = call.ret

\* fwd and back were both set and the camera moved.
C6_Witness ==
    /\ call.op = "adjust_camera"
    /\ inputs_commanded.fwd /\ inputs_commanded.back
    /\ camera.position # call.before.position

\* C7: with only fwd set (run off, or run_factor 1), identity orientation,
\* dt = 1 and move_sens = 1, one call adds (0, 0, 1) to the position, leaves
\* the orientation alone and returns true.
C7_ForwardOneUnit ==
    (/\ call.op = "adjust_camera"
     /\ inputs_commanded.fwd
     /\ \A f \in (MotionFlags \cup {"free_look"}) \ {"fwd"} : ~inputs_commanded[f]
     /\ ~inputs_commanded.run \/ input_settings.run_factor = 1
     /\ call.before.orientation = Quaternion(1, 0, 0, 0)
     /\ call.dt = 1
     /\ input_settings.move_sens = 1)
    => /\ camera.position = Vec3(call.before.position.x,
                                 call.before.position.y,
                                 call.before.position.z + 1)
       /\ camera.orientation = call.before.orientation
       /\ call.ret

\* Only fwd was set and the camera went from the origin to (0, 0, 1).
C7_Witness ==
    /\ call.op = "adjust_camera"
    /\ inputs_commanded = [InputsDefault EXCEPT !.fwd = TRUE]
    /\ call.before = [position |-> Vec3(0, 0, 0),
                      orientation |-> Quaternion(1, 0, 0, 0)]
    /\ call.dt = 1 /\ input_settings.move_sens = 1
    /\ camera.position = Vec3(0, 0, 1)

FreeCamera == input_settings.initial_controls = "FreeCamera"

\* C2 as stated: after every rendered frame under FreeCamera both mouse
\* deltas are exactly zero.
C2_DeltasZeroAfterFrame ==
    (last_frame.rendered /\ FreeCamera) =>
        /\ inputs_commanded.mouse_delta_x = 0
        /\ inputs_commanded.mouse_delta_y = 0

\* C2, amended: after every rendered frame under FreeCamera both mouse deltas
\* are within EPS in magnitude, and exactly zero when the camera step ran
\* (inputs were present at the frame).
C2_DeltasWithinEpsAfterFrame ==
    (last_frame.rendered /\ FreeCamera) =>
        /\ inputs_commanded.mouse_delta_x <= EPS
        /\ inputs_commanded.mouse_delta_x >= -EPS
        /\ inputs_commanded.mouse_delta_y <= EPS
        /\ inputs_commanded.mouse_delta_y >= -EPS
        /\ last_frame.invoked =>
              /\ inputs_commanded.mouse_delta_x = 0
              /\ inputs_commanded.mouse_delta_y = 0

\* A frame whose camera step did not run left a delta below EPS in place.
C2_Witness ==
    /\ last_frame.rendered /\ FreeCamera
    /\ ~last_frame.invoked
    /\ inputs_commanded.mouse_delta_x = 1

C8_FlagsPersistAcrossFrames ==
    [][last_frame'.rendered =>
        /\ \A f \in Flags : inputs_commanded'[f] = inputs_commanded[f]
        /\ (FreeCamera /\ \E f \in MotionFlags : inputs_commanded[f])
              => last_frame'.invoked /\ last_frame'.changed]_vars

\* A frame integrated a held fwd key, which is still set after it.
C8_Witness ==
    /\ last_frame.rendered /\ last_frame.invoked
    /\ inputs_commanded.fwd
    /\ camera.position # InitCamera.position

\* C10: under a control scheme other than FreeCamera the inputs stay at their
\* default through every device event, the camera step of a frame neither
\* calls adjust_camera nor writes the buffer nor resets the deltas, and the
\* camera and its buffer hold only what the application put there.
C10_OtherSchemesInert ==
    ~FreeCamera =>
        /\ inputs_commanded = InputsDefault
        /\ ~last_frame.invoked /\ ~last_frame.uploaded /\ ~last_frame.zeroed
        /\ camera \in {InitCamera, AppCamera}
        /\ camera_buf \in {to_bytes(InitCamera), to_bytes(AppCamera)}

\* Under Fps a frame was rendered with the camera where the application put it.
C10_Witness ==
    /\ input_settings.initial_controls = "Fps"
    /\ last_frame.rendered
    /\ camera = AppCamera
    /\ camera_buf = to_bytes(InitCamera)

(***************************************************************************)
(* f32 values of the matrix code.  A finite value is the fraction          *)
(* <<n, d>> in lowest terms with d > 0, computed exactly (no rounding);    *)
(* <<1, 0>>, <<-1, 0>> and <<0, 0>> are +inf, -inf and NaN.  There is one   *)
(* zero: the sign of a zero is not kept.                                   *)
(***************************************************************************)
RECURSIVE gcd(_, _)
gcd(a, b) == IF b = 0 THEN a ELSE gcd(b, a % b)

sgn(n) == IF n > 0 THEN 1 ELSE IF n < 0 THEN -1 ELSE 0

\* The f32 of the fraction n / d, d # 0.
f32(n, d) ==
    LET g == gcd(abs(n), abs(d))
        s == sgn(d)
    IN  <<(s * n) \div g, (s * d) \div g>>

\* An integer `as f32`.
as_f32(n) == <<n, 1>>

f32_zero == as_f32(0)

f32_one == as_f32(1)

f32_nan == <<0, 0>>

\* a + b: NaN stays NaN, inf - inf is NaN, an infinity absorbs the finite.
f32_add(a, b) ==
    IF a[2] = 0 \/ b[2] = 0
    THEN IF a = f32_nan \/ b = f32_nan THEN f32_nan
         ELSE IF a[2] = 0 /\ b[2] = 0
              THEN IF a = b THEN a ELSE f32_nan
              ELSE IF a[2] = 0 THEN a ELSE b
    ELSE f32(a[1] * b[2] + b[1] * a[2], a[2] * b[2])

f32_neg(a) == <<-a[1], a[2]>>

f32_sub(a, b) == f32_add(a, f32_neg(b))

\* a * b: NaN stays NaN, inf * 0 is NaN, inf * x is an infinity.
f32_mul(a, b) ==
    IF a[2] = 0 \/ b[2] = 0
    THEN IF a[1] = 0 \/ b[1] = 0 THEN f32_nan
         ELSE <<sgn(a[1]) * sgn(b[1]), 0>>
    ELSE f32(a[1] * b[1], a[2] * b[2])

\* a / b: NaN stays NaN, 0 / 0 and inf / inf are NaN, x / 0 and inf / x are
\* infinities, x / inf is 0.
f32_div(a, b) ==
    IF a = f32_nan \/ b = f32_nan THEN f32_nan
    ELSE IF a[2] = 0
         THEN IF b[2] = 0 THEN f32_nan
              ELSE <<sgn(a[1]) * (IF b[1] < 0 THEN -1 ELSE 1), 0>>
         ELSE IF b[2] = 0 THEN f32_zero
              ELSE IF b[1] = 0
                   THEN <<sgn(a[1]), 0>>
                   ELSE f32(a[1] * b[2], a[2] * b[1])

(***************************************************************************)
(* lin_alg.rs: Mat4.  A matrix is its data array; data(m, i) is data[i].   *)
(***************************************************************************)
data(m, i) == m[i + 1]

\* Mat4::new_identity.
mat4_new_identity ==
    <<f32_one, f32_zero, f32_zero, f32_zero,
      f32_zero, f32_one, f32_zero, f32_zero,
      f32_zero, f32_zero, f32_one, f32_zero,
      f32_zero, f32_zero, f32_zero, f32_one>>

\* (fov_y / 2.).tan() for the fields of view whose half has a rational
\* tangent: 2 atan(1/2) ("narrow"), a quarter turn ("right"), 2 atan(2)
\* ("wide").
tan_half(fov_y) ==
    CASE fov_y = "narrow" -> f32(1, 2)
      [] fov_y = "right" -> f32(1, 1)
      [] fov_y = "wide" -> f32(2, 1)

\* Mat4::new_perspective_rh.
new_perspective_rh(fov_y, aspect_ratio, near, far) ==
    LET f == f32_div(f32_one, tan_half(fov_y))
        range_inv == f32_div(f32_one, f32_sub(near, far))
    IN  <<f32_div(f, aspect_ratio), f32_zero, f32_zero, f32_zero,
          f32_zero, f, f32_zero, f32_zero,
          f32_zero, f32_zero, f32_mul(far, range_inv), f32_neg(f32_one),
          f32_zero, f32_zero, f32_mul(f32_mul(far, near), range_inv), f32_zero>>

(***************************************************************************)
(* camera.rs, system.rs, graphics.rs: the projection and the window size.  *)
(* Here the camera carries its projection fields as well: fov_y, aspect,   *)
(* near, far and the stored proj_mat.                                      *)
(***************************************************************************)
\* Largest width and height of a window, in pixels.
MaxSide == 3

UiLayouts == {"Left", "Right", "Top", "Bottom"}

\* Camera::update_proj_mat.
update_proj_mat(cam) ==
    [cam EXCEPT !.proj_mat =
        new_perspective_rh(cam.fov_y, cam.aspect, cam.near, cam.far)]

\* The effective size with the UI strip taken from the width whatever the
\* layout.
resize_eff_size_width_only(ui, width, height) ==
    [eff_width |-> as_f32(width - ui.size), eff_height |-> as_f32(height)]

\* State::resize: the match on the UI layout.
resize_eff_size(ui, width, height) ==
    IF ui.layout \in {"Left", "Right"}
    THEN [eff_width |-> as_f32(width - ui.size), eff_height |-> as_f32(height)]
    ELSE [eff_width |-> as_f32(width), eff_height |-> as_f32(height - ui.size)]

\* State::resize: the surface configuration and the camera after it.
resize(new_size, cfg, ui, cam) ==
    IF new_size.width > 0 /\ new_size.height > 0
    THEN LET eff == resize_eff_size(ui, new_size.width, new_size.height)
         IN  [surface_cfg |-> new_size,
              camera |-> update_proj_mat(
                  [cam EXCEPT !.aspect = f32_div(eff.eff_width, eff.eff_height)])]
    ELSE [surface_cfg |-> cfg, camera |-> cam]

\* GraphicsState::render: the viewport of the 3D pass.
viewport(ui, width, height) ==
    CASE ui.layout = "Left" ->
            [x |-> as_f32(ui.size), y |-> f32_zero,
             eff_width |-> as_f32(width - ui.size), eff_height |-> as_f32(height)]
      [] ui.layout = "Right" ->
            [x |-> f32_zero, y |-> f32_zero,
             eff_width |-> as_f32(width - ui.size), eff_height |-> as_f32(height)]
      [] ui.layout = "Top" ->
            [x |-> f32_zero, y |-> as_f32(ui.size),
             eff_width |-> as_f32(width), eff_height |-> as_f32(height - ui.size)]
      [] ui.layout = "Bottom" ->
            [x |-> f32_zero, y |-> f32_zero,
             eff_width |-> as_f32(width), eff_height |-> as_f32(height - ui.size)]

\* Fields of view, all in (0, pi).
FovValues == {"narrow", "right", "wide"}

\* A camera of the application's Scene before GraphicsState::new: the aspect
\* is the one of `impl Default for Camera` (4 / 3) or 1, proj_mat the identity.
SceneCameras ==
    {[position |-> new_zero, orientation |-> new_identity,
      fov_y |-> fov, aspect |-> a, near |-> as_f32(1), far |-> as_f32(3),
      proj_mat |-> mat4_new_identity] : fov \in FovValues, a \in {f32(4, 3), f32(1, 1)}}

\* What a handler of the application does to the camera's projection fields:
\* nothing, a new fov_y, or a new fov_y followed by update_proj_mat.
ProjChoices == {"none", "fov", "fov_updated"}

app_projection(choice, fov, cam) ==
    CASE choice = "none" -> cam
      [] choice = "fov" -> [cam EXCEPT !.fov_y = fov]
      [] choice = "fov_updated" -> update_proj_mat([cam EXCEPT !.fov_y = fov])

\* State::new and GraphicsState::new, which calls update_proj_mat on the
\* scene's camera.
InitResize ==
    /\ inputs_commanded \in {InputsDefault, [InputsDefault EXCEPT !.free_look = TRUE]}
    /\ camera \in {update_proj_mat(c) : c \in SceneCameras}
    /\ camera_buf = to_bytes(camera)
    /\ input_settings \in {st \in SystemSettings : st.initial_controls = "FreeCamera"}
    /\ ui_settings \in [layout : UiLayouts, size : 0..1]
    /\ mouse_in_gui = FALSE
    /\ surface_cfg = InitSurface
    /\ last_frame = NoFrame
    /\ call = [op |-> "new"]

\* WindowEvent::Resized: resize, then free_look is cleared.
Resized ==
    /\ \E width \in 0..MaxSide, height \in 0..MaxSide :
          \E r \in {resize([width |-> width, height |-> height],
                           surface_cfg, ui_settings, camera)} :
              /\ surface_cfg' = r.surface_cfg
              /\ camera' = r.camera
              /\ call' = [op |-> "resize", width |-> width, height |-> height]
    /\ inputs_commanded' = [inputs_commanded EXCEPT !.free_look = FALSE]
    /\ UNCHANGED <<camera_buf, input_settings, ui_settings, mouse_in_gui,
                   last_frame>>

\* A handler of the application changes the camera's projection fields.
HandlerProjection ==
    /\ \E choice \in ProjChoices, fov \in FovValues :
          camera' = app_projection(choice, fov, camera)
    /\ call' = [op |-> "handler"]
    /\ UNCHANGED <<inputs_commanded, camera_buf, input_settings, ui_settings,
                   mouse_in_gui, surface_cfg, last_frame>>

NextResize == Resized \/ HandlerProjection

SpecResize == InitResize /\ [][NextResize]_vars

\* The aspect is the quotient of the effective size the viewport has.
AspectOfViewport ==
    LET v == viewport(ui_settings, surface_cfg.width, surface_cfg.height)
    IN  camera.aspect = f32_div(v.eff_width, v.eff_height)

\* proj_mat is the perspective matrix of the camera's current fields.
ProjMatFresh ==
    camera.proj_mat =
        new_perspective_rh(camera.fov_y, camera.aspect, camera.near, camera.far)

\* A resize to a width and a height above zero was the last thing done.
AfterResize == call.op = "resize" /\ call.width > 0 /\ call.height > 0

\* C11 as stated: after initialisation and after every resize with width > 0
\* and height > 0 the aspect is effective width / effective height of the
\* viewport, and proj_mat is the perspective matrix of the current fields.
C11_AspectAfterInitAndResize ==
    (call.op = "new" \/ AfterResize) => AspectOfViewport /\ ProjMatFresh

\* C11, amended: after every resize with width > 0 and height > 0 the aspect
\* is effective width / effective height of the viewport and proj_mat is the
\* perspective matrix of the current fields; after initialisation proj_mat is
\* the perspective matrix of the current fields, with the aspect the scene's
\* camera came with.
C11_AspectAfterResize ==
    /\ AfterResize => AspectOfViewport /\ ProjMatFresh
    /\ call.op = "new" =>
          ProjMatFresh /\ \E c \in SceneCameras : camera.aspect = c.aspect

\* A resize under a Top layout took the strip from the height, after a
\* handler had left proj_mat stale.
C11_Witness ==
    /\ AfterResize
    /\ ui_settings = [layout |-> "Top", size |-> 1]
    /\ surface_cfg = [width |-> 3, height |-> 3]
    /\ camera.aspect = f32(3, 2)
    /\ camera.fov_y = "wide"
    /\ data(camera.proj_mat, 0) = f32(1, 3)

(***************************************************************************)
(* camera.rs, types.rs: the bytes of the camera's uniform.                 *)
(***************************************************************************)
F32_SIZE == 4

MAT4_SIZE == 16 * F32_SIZE

CAM_UNIFORM_SIZE == 2 * MAT4_SIZE + 4 * F32_SIZE

RECURSIVE pow2(_)
pow2(k) == IF k = 0 THEN 1 ELSE 2 * pow2(k - 1)

\* The position of the highest set bit of n >= 1.
RECURSIVE ilog2(_)
ilog2(n) == IF n < 2 THEN 0 ELSE 1 + ilog2(n \div 2)

\* f32::to_bits of a finite value n / 2^k with |n| < 2^24, as the three
\* fields of the word: sign (1 bit), biased exponent (8 bits), mantissa (23).
to_bits(x) ==
    IF x[1] = 0
    THEN [sign |-> 0, exponent |-> 0, mantissa |-> 0]
    ELSE LET n == abs(x[1])
             a == ilog2(n)
         IN  [sign |-> IF x[1] < 0 THEN 1 ELSE 0,
              exponent |-> a - ilog2(x[2]) + 127,
              mantissa |-> (n - pow2(a)) * pow2(23 - a)]

\* f32::to_le_bytes: the word's bits 0-7, 8-15, 16-23, 24-31.
to_le_bytes(x) ==
    LET bits == to_bits(x)
    IN  <<bits.mantissa % 256,
          (bits.mantissa \div 256) % 256,
          (bits.exponent % 2) * 128 + bits.mantissa \div 65536,
          bits.sign * 128 + bits.exponent \div 2>>

\* f32::from_le_bytes, for the bytes of a zero or a normal number.
from_le_bytes(b) ==
    LET sign == IF b[4] >= 128 THEN -1 ELSE 1
        e == (b[4] % 128) * 2 + b[3] \div 128
        mant == (b[3] % 128) * 65536 + b[2] * 256 + b[1]
    IN  IF e = 0 /\ mant = 0
        THEN f32_zero
        ELSE IF e >= 150
             THEN as_f32(sign * (pow2(23) + mant) * pow2(e - 150))
             ELSE f32(sign * (pow2(23) + mant), pow2(150 - e))

\* Mat4::to_bytes: the sixteen floats of data in order, each little-endian.
mat4_to_bytes(m) ==
    [i \in 1..MAT4_SIZE |->
        to_le_bytes(data(m, (i - 1) \div F32_SIZE))[((i - 1) % F32_SIZE) + 1]]

\* Mat4::new_translation, of a Vec3.
new_translation(val) ==
    <<f32_one, f32_zero, f32_zero, f32_zero,
      f32_zero, f32_one, f32_zero, f32_zero,
      f32_zero, f32_zero, f32_one, f32_zero,
      as_f32(val.x), as_f32(val.y), as_f32(val.z), f32_one>>

\* Mat4::new_scaler.
new_scaler(scale) ==
    <<scale, f32_zero, f32_zero, f32_zero,
      f32_zero, scale, f32_zero, f32_zero,
      f32_zero, f32_zero, scale, f32_zero,
      f32_zero, f32_zero, f32_zero, f32_one>>

\* The uniform without proj_mat_inv: the matrix, then the position block.
uniform_to_bytes_packed(uniform) ==
    LET pv == mat4_to_bytes(uniform.proj_view_mat)
        x == to_le_bytes(as_f32(uniform.position.x))
        y == to_le_bytes(as_f32(uniform.position.y))
        z == to_le_bytes(as_f32(uniform.position.z))
        w == to_le_bytes(f32_one)
    IN  [i \in 1..(MAT4_SIZE + 4 * F32_SIZE) |->
            LET k == i - 1
            IN  CASE k < 64 -> pv[k + 1]
                  [] k >= 64 /\ k < 68 -> x[k - 63]
                  [] k >= 68 /\ k < 72 -> y[k - 67]
                  [] k >= 72 /\ k < 76 -> z[k - 71]
                  [] OTHER -> w[k - 75]]

\* CameraUniform::to_bytes: result[0..64], result[64..128], result[128..132],
\* result[132..136], result[136..140], result[140..144].
uniform_to_bytes(uniform) ==
    LET pv == mat4_to_bytes(uniform.proj_view_mat)
        inv == mat4_to_bytes(uniform.proj_mat_inv)
        x == to_le_bytes(as_f32(uniform.position.x))
        y == to_le_bytes(as_f32(uniform.position.y))
        z == to_le_bytes(as_f32(uniform.position.z))
        w == to_le_bytes(f32_one)
    IN  [i \in 1..CAM_UNIFORM_SIZE |->
            LET k == i - 1
            IN  CASE k < 64 -> pv[k + 1]
                  [] k >= 64 /\ k < 128 -> inv[k - 63]
                  [] k >= 128 /\ k < 132 -> x[k - 127]
                  [] k >= 132 /\ k < 136 -> y[k - 131]
                  [] k >= 136 /\ k < 140 -> z[k - 135]
                  [] OTHER -> w[k - 139]]

\* Positions of a uniform: every coordinate within MaxPos + 1.
UniformPositions ==
    [x : -(MaxPos + 1)..(MaxPos + 1), y : -(MaxPos + 1)..(MaxPos + 1),
     z : -(MaxPos + 1)..(MaxPos + 1)]

\* Matrices of a uniform: the identity, scalings, translations and
\* perspective matrices, all of floats that are fractions of a power of two.
UniformMatrices ==
    {mat4_new_identity, new_scaler(f32(-3, 4)), new_scaler(f32(5, 1))}
    \cup {new_translation(p) : p \in Positions}
    \cup {new_perspective_rh(fov, a, as_f32(1), as_f32(3)) :
            fov \in FovValues, a \in {f32(1, 2), f32(1, 1), f32(2, 1)}}

\* A CameraUniform, as Camera::to_uniform makes it: proj_mat_inv is the
\* identity.
InitBytes ==
    /\ inputs_commanded = InputsDefault
    /\ camera = InitCamera
    /\ camera_buf = to_bytes(InitCamera)
    /\ input_settings \in {st \in SystemSettings : st.initial_controls = "FreeCamera"}
    /\ ui_settings = [size |-> 1]
    /\ mouse_in_gui = FALSE
    /\ surface_cfg = InitSurface
    /\ last_frame = NoFrame
    /\ call \in {[op |-> "none",
                  uniform |-> [proj_view_mat |-> m,
                               proj_mat_inv |-> mat4_new_identity,
                               position |-> p]] :
                 m \in UniformMatrices, p \in UniformPositions}

\* One call of CameraUniform::to_bytes.
CallToBytes ==
    /\ call.op = "none"
    /\ call' = [op |-> "to_bytes", uniform |-> call.uniform,
                ret |-> uniform_to_bytes(call.uniform)]
    /\ UNCHANGED <<inputs_commanded, camera, camera_buf, input_settings,
                   ui_settings, mouse_in_gui, surface_cfg, last_frame>>

NextBytes == CallToBytes

SpecBytes == InitBytes /\ [][NextBytes]_vars

\* The float the four bytes from offset k (counted from 0) decode to.
FloatAt(bytes, k) ==
    from_le_bytes(<<bytes[k + 1], bytes[k + 2], bytes[k + 3], bytes[k + 4]>>)

\* The sixteen floats from offset k are those of the matrix m.
MatrixAt(bytes, k, m) ==
    \A i \in 0..15 : FloatAt(bytes, k + 4 * i) = data(m, i)

\* The three floats from offset k are x, y, z of the position p.
PositionAt(bytes, k, p) ==
    /\ FloatAt(bytes, k) = as_f32(p.x)
    /\ FloatAt(bytes, k + 4) = as_f32(p.y)
    /\ FloatAt(bytes, k + 8) = as_f32(p.z)

dot(a, b) == a.x * b.x + a.y * b.y + a.z * b.z

\* Quaternion::to_matrix: the data of the Mat3.
to_matrix(q) ==
    LET w == as_f32(q.w)
        x == as_f32(q.x)
        y == as_f32(q.y)
        z == as_f32(q.z)
        two == as_f32(2)
        half == f32(1, 2)
        qwqw == f32_mul(w, w)
        qwqx == f32_mul(w, x)
        qwqy == f32_mul(w, y)
        qwqz == f32_mul(w, z)
        qxqy == f32_mul(x, y)
        qxqz == f32_mul(x, z)
        qyqz == f32_mul(y, z)
    IN  <<f32_mul(two, f32_add(f32_sub(qwqw, half), f32_mul(x, x))),
          f32_mul(two, f32_add(qxqy, qwqz)),
          f32_mul(two, f32_sub(qxqz, qwqy)),
          f32_mul(two, f32_sub(qxqy, qwqz)),
          f32_mul(two, f32_add(f32_sub(qwqw, half), f32_mul(y, y))),
          f32_mul(two, f32_add(qyqz, qwqx)),
          f32_mul(two, f32_add(qxqz, qwqy)),
          f32_mul(two, f32_sub(qyqz, qwqx)),
          f32_mul(two, f32_add(f32_sub(qwqw, half), f32_mul(z, z)))>>

\* Camera::view_mat.
view_mat(cam) ==
    LET mat == to_matrix(cam.orientation)
    IN  <<data(mat, 0), data(mat, 3), data(mat, 6), f32_zero,
          data(mat, 1), data(mat, 4), data(mat, 7), f32_zero,
          data(mat, 2), data(mat, 5), data(mat, 8), f32_zero,
          as_f32(-dot(cam.position, RIGHT_VEC)),
          as_f32(-dot(cam.position, UP_VEC)),
          as_f32(dot(cam.position, FWD_VEC)), f32_one>>

\* Cameras of a call of view_mat: every position and orientation.
InitView ==
    /\ inputs_commanded = InputsDefault
    /\ camera \in [position : UniformPositions, orientation : Orientations]
    /\ camera_buf = to_bytes(camera)
    /\ input_settings \in {st \in SystemSettings : st.initial_controls = "FreeCamera"}
    /\ ui_settings = [size |-> 1]
    /\ mouse_in_gui = FALSE
    /\ surface_cfg = InitSurface
    /\ last_frame = NoFrame
    /\ call = NoCall

\* One call of Camera::view_mat.
CallViewMat ==
    /\ call.op = "none"
    /\ call' = [op |-> "view_mat", ret |-> view_mat(camera)]
    /\ UNCHANGED <<inputs_commanded, camera, camera_buf, input_settings,
                   ui_settings, mouse_in_gui, surface_cfg, last_frame>>

NextView == CallViewMat

SpecView == InitView /\ [][NextView]_vars

\* The element in row r and column c (from 0) of a column-major 4x4 matrix.
Elem(m, r, c) == data(m, 4 * c + r)

RECURSIVE SumTo(_, _)
\* The sum of term[0] .. term[n].
SumTo(term, n) ==
    IF n = 0 THEN term[0] ELSE f32_add(SumTo(term, n - 1), term[n])

\* The standard product a b of two column-major 4x4 matrices.
MatrixProduct(a, b) ==
    [i \in 1..16 |->
        LET r == (i - 1) % 4
            c == (i - 1) \div 4
        IN  SumTo([k \in 0..3 |-> f32_mul(Elem(a, r, k), Elem(b, k, c))], 3)]

\* The 4x4 matrix of a column-major 3x3 rotation matrix.
RotationMat4(m3) ==
    <<data(m3, 0), data(m3, 1), data(m3, 2), f32_zero,
      data(m3, 3), data(m3, 4), data(m3, 5), f32_zero,
      data(m3, 6), data(m3, 7), data(m3, 8), f32_zero,
      f32_zero, f32_zero, f32_zero, f32_one>>

\* C13: view_mat() is the product of the rotation matrix of the inverse
\* orientation with the translation by the negated position.
C13_ViewIsRotationOfTranslation ==
    call.op = "view_mat" =>
        call.ret =
            MatrixProduct(RotationMat4(to_matrix(quat_inverse(camera.orientation))),
                          new_translation(vec_scale(camera.position, -1)))

(***************************************************************************)
(* lin_alg.rs: Mat4 product, determinant and inverse.                      *)
(***************************************************************************)
\* Largest magnitude of an entry added to the identity in a matrix tried.
MaxEntry == 1

\* The product of three and of four floats, left to right.
f32_mul3(a, b, c) == f32_mul(f32_mul(a, b), c)

f32_mul4(a, b, c, e) == f32_mul(f32_mul3(a, b, c), e)

\* impl Mul<Self> for Mat4, one `let arc`:
\* d[r] * rd[4c] + d[4 + r] * rd[4c + 1] + d[8 + r] * rd[4c + 2]
\* + d[12 + r] * rd[4c + 3].
mul_term(m, rhs, r, c) ==
    f32_add(f32_add(f32_add(f32_mul(data(m, r), data(rhs, 4 * c)),
                            f32_mul(data(m, 4 + r), data(rhs, 4 * c + 1))),
                    f32_mul(data(m, 8 + r), data(rhs, 4 * c + 2))),
            f32_mul(data(m, 12 + r), data(rhs, 4 * c + 3)))

\* impl Mul<Self> for Mat4: data is
\* [a00, a01, a02, a03, a10, a11, a12, a13, a20, ..., a33].
mat4_mul(m, rhs) ==
    <<mul_term(m, rhs, 0, 0), mul_term(m, rhs, 0, 1),
      mul_term(m, rhs, 0, 2), mul_term(m, rhs, 0, 3),
      mul_term(m, rhs, 1, 0), mul_term(m, rhs, 1, 1),
      mul_term(m, rhs, 1, 2), mul_term(m, rhs, 1, 3),
      mul_term(m, rhs, 2, 0), mul_term(m, rhs, 2, 1),
      mul_term(m, rhs, 2, 2), mul_term(m, rhs, 2, 3),
      mul_term(m, rhs, 3, 0), mul_term(m, rhs, 3, 1),
      mul_term(m, rhs, 3, 2), mul_term(m, rhs, 3, 3)>>

\* Mat4::determinant: the eight products the code adds and subtracts.
mat4_determinant(m) ==
    LET p(a, b, c, e) == f32_mul4(data(m, a), data(m, b), data(m, c), data(m, e))
    IN  f32_sub(f32_sub(f32_sub(f32_sub(
            f32_add(f32_add(f32_add(p(0, 5, 10, 15), p(4, 9, 14, 3)),
                            p(8, 13, 2, 7)),
                    p(12, 1, 6, 11)),
            p(0, 13, 10, 7)), p(4, 1, 14, 11)), p(8, 5, 2, 15)), p(12, 9, 6, 3))

\* Mat4::transpose.
mat4_transpose(m) ==
    <<data(m, 0), data(m, 4), data(m, 8), data(m, 12),
      data(m, 1), data(m, 5), data(m, 9), data(m, 13),
      data(m, 2), data(m, 6), data(m, 10), data(m, 14),
      data(m, 3), data(m, 7), data(m, 11), data(m, 15)>>

\* Mat4::to_cols: the columns x, y, z, w, each a Vec4 <<x, y, z, w>>.
to_cols(m) ==
    <<<<data(m, 0), data(m, 1), data(m, 2), data(m, 3)>>,
      <<data(m, 4), data(m, 5), data(m, 6), data(m, 7)>>,
      <<data(m, 8), data(m, 9), data(m, 10), data(m, 11)>>,
      <<data(m, 12), data(m, 13), data(m, 14), data(m, 15)>>>>

\* Vec4::truncate_n: the vector without its element n.
truncate_n(v, n) ==
    CASE n = 0 -> <<v[2], v[3], v[4]>>
      [] n = 1 -> <<v[1], v[3], v[4]>>
      [] n = 2 -> <<v[1], v[2], v[4]>>
      [] n = 3 -> <<v[1], v[2], v[3]>>

\* Mat3::from_cols.
mat3_from_cols(x, y, z) ==
    <<x[1], x[2], x[3], y[1], y[2], y[3], z[1], z[2], z[3]>>

\* Mat3::determinant.
mat3_determinant(m) ==
    LET p(a, b, c) == f32_mul3(data(m, a), data(m, b), data(m, c))
    IN  f32_sub(f32_sub(f32_sub(
            f32_add(f32_add(p(0, 4, 8), p(3, 7, 2)), p(6, 1, 5)),
            p(0, 7, 5)), p(3, 1, 8)), p(6, 4, 2))

\* The closure cf of Mat4::inverse.
cf(t, inv_det, i, j) ==
    LET cols == to_cols(t)
        mat == CASE i = 0 -> mat3_from_cols(truncate_n(cols[2], j),
                                            truncate_n(cols[3], j),
                                            truncate_n(cols[4], j))
                 [] i = 1 -> mat3_from_cols(truncate_n(cols[1], j),
                                            truncate_n(cols[3], j),
                                            truncate_n(cols[4], j))
                 [] i = 2 -> mat3_from_cols(truncate_n(cols[1], j),
                                            truncate_n(cols[2], j),
                                            truncate_n(cols[4], j))
                 [] i = 3 -> mat3_from_cols(truncate_n(cols[1], j),
                                            truncate_n(cols[2], j),
                                            truncate_n(cols[3], j))
        sign == IF (i + j) % 2 = 1 THEN as_f32(-1) ELSE f32_one
    IN  f32_mul(f32_mul(mat3_determinant(mat), sign), inv_det)

\* Mat4::inverse: None when the determinant is zero, else
\* Some([cf(0, 0), cf(0, 1), cf(0, 2), cf(0, 3), cf(1, 0), ..., cf(3, 3)]).
mat4_inverse(m) ==
    LET det == mat4_determinant(m)
    IN  IF det = f32_zero
        THEN [some |-> FALSE]
        ELSE LET inv_det == f32_div(f32_one, det)
                 t == mat4_transpose(m)
             IN  [some |-> TRUE,
                  value |-> [k \in 1..16 |->
                                cf(t, inv_det, (k - 1) \div 4, (k - 1) % 4)]]


\* The matrix with the integer n at cell i (0-based) and zero elsewhere,
\* added to the identity.
identity_plus(i, a, j, b) ==
    [k \in 1..16 |->
        f32_add(f32_add(data(mat4_new_identity, k - 1),
                        IF k - 1 = i THEN as_f32(a) ELSE f32_zero),
                IF k - 1 = j THEN as_f32(b) ELSE f32_zero)]

\* The permutations of 0..3 and the matrix of each.
Permutations4 == {p \in [0..3 -> 0..3] : \A i, j \in 0..3 : p[i] = p[j] => i = j}

permutation_matrix(p) ==
    [k \in 1..16 |->
        IF p[(k - 1) \div 4] = (k - 1) % 4 THEN f32_one ELSE f32_zero]

\* The matrices the operations are applied to: the identity with up to
\* two cells changed, the permutation matrices, a translation, a scaling.
Mat4Inputs ==
    {identity_plus(i, a, j, b) :
        i \in 0..15, j \in 0..15, a \in -MaxEntry..MaxEntry, b \in -MaxEntry..MaxEntry}
    \cup {permutation_matrix(p) : p \in Permutations4}
    \cup {new_translation(Vec3(1, 2, 3)), new_scaler(as_f32(2))}

\* The left operands of a product.
Mat4Lhs == {mat4_new_identity, new_scaler(as_f32(2)), new_translation(Vec3(1, 2, 3))}

InitMat ==
    /\ inputs_commanded = InputsDefault
    /\ camera = InitCamera
    /\ camera_buf = to_bytes(camera)
    /\ input_settings \in {st \in SystemSettings : st.initial_controls = "FreeCamera"}
    /\ ui_settings = [size |-> 1]
    /\ mouse_in_gui = FALSE
    /\ surface_cfg = InitSurface
    /\ last_frame = NoFrame
    /\ call \in {[op |-> "none", m |-> m] : m \in Mat4Inputs}

\* lhs * m.
CallMul ==
    /\ call.op = "none"
    /\ \E lhs \in Mat4Lhs :
          call' = [op |-> "mul", m |-> call.m, lhs |-> lhs,
                   ret |-> mat4_mul(lhs, call.m)]
    /\ UNCHANGED <<inputs_commanded, camera, camera_buf, input_settings,
                   ui_settings, mouse_in_gui, surface_cfg, last_frame>>

\* m.determinant().
CallDeterminant ==
    /\ call.op = "none"
    /\ call' = [op |-> "determinant", m |-> call.m,
                ret |-> mat4_determinant(call.m)]
    /\ UNCHANGED <<inputs_commanded, camera, camera_buf, input_settings,
                   ui_settings, mouse_in_gui, surface_cfg, last_frame>>

\* m.inverse().
CallInverse ==
    /\ call.op = "none"
    /\ call' = [op |-> "inverse", m |-> call.m, ret |-> mat4_inverse(call.m)]
    /\ UNCHANGED <<inputs_commanded, camera, camera_buf, input_settings,
                   ui_settings, mouse_in_gui, surface_cfg, last_frame>>

NextMat == CallMul \/ CallDeterminant \/ CallInverse

SpecMat == InitMat /\ [][NextMat]_vars


\* The indices 0..3 without k, in order.
Others(k) ==
    CASE k = 0 -> <<1, 2, 3>>
      [] k = 1 -> <<0, 2, 3>>
      [] k = 2 -> <<0, 1, 3>>
      [] k = 3 -> <<0, 1, 2>>

\* The determinant of m without row r and column c.
Minor(m, r, c) ==
    LET rs == Others(r)
        cs == Others(c)
        e(i, j) == Elem(m, rs[i], cs[j])
        p(x, y, z) == f32_mul3(x, y, z)
    IN  f32_sub(f32_sub(f32_sub(
            f32_add(f32_add(p(e(1, 1), e(2, 2), e(3, 3)),
                            p(e(1, 2), e(2, 3), e(3, 1))),
                    p(e(1, 3), e(2, 1), e(3, 2))),
            p(e(1, 3), e(2, 2), e(3, 1))),
            p(e(1, 1), e(2, 3), e(3, 2))),
            p(e(1, 2), e(2, 1), e(3, 3)))

\* The determinant of a 4x4 matrix, expanded along its first row.
Determinant(m) ==
    SumTo([c \in 0..3 |->
              f32_mul(f32_mul(IF c % 2 = 1 THEN as_f32(-1) ELSE f32_one,
                              Elem(m, 0, c)),
                      Minor(m, 0, c))], 3)

\* C14: multiplying by the identity on the left returns the right operand,
\* and a product is the standard column-major matrix product.
C14_IdentityTimesMatrix ==
    call.op = "mul" =>
        /\ call.lhs = mat4_new_identity => call.ret = call.m
        /\ call.ret = MatrixProduct(call.lhs, call.m)

\* C15: the inverse of an invertible matrix exists and its product with
\* the matrix is the identity.
C15_InverseRoundTrip ==
    (call.op = "inverse" /\ Determinant(call.m) # f32_zero) =>
        /\ call.ret.some
        /\ mat4_mul(call.ret.value, call.m) = mat4_new_identity

\* C16: the inverse of a matrix whose determinant is zero is None.
C16_SingularHasNoInverse ==
    (call.op = "inverse" /\ Determinant(call.m) = f32_zero) => ~call.ret.some


(***************************************************************************)
(* lin_alg.rs: the determinant and the inverse of a perspective matrix.    *)
(***************************************************************************)
\* The farthest clipping plane tried.
MaxDepth == 3

\* Camera configurations with near # far, fov_y in (0, pi), aspect > 0.
PerspectiveArgs ==
    {a \in [fov_y : FovValues,
            aspect : {f32(w, h) : w \in 1..MaxSide, h \in 1..MaxSide},
            near : {as_f32(n) : n \in 1..MaxDepth},
            far : {as_f32(n) : n \in 1..MaxDepth}] : a.near # a.far}

InitProj ==
    /\ inputs_commanded = InputsDefault
    /\ camera = InitCamera
    /\ camera_buf = to_bytes(camera)
    /\ input_settings \in {st \in SystemSettings : st.initial_controls = "FreeCamera"}
    /\ ui_settings = [size |-> 1]
    /\ mouse_in_gui = FALSE
    /\ surface_cfg = InitSurface
    /\ last_frame = NoFrame
    /\ call \in {[op |-> "none", args |-> a] : a \in PerspectiveArgs}

\* Mat4::new_perspective_rh(..).determinant().
CallPerspectiveDeterminant ==
    /\ call.op = "none"
    /\ LET m == new_perspective_rh(call.args.fov_y, call.args.aspect,
                                   call.args.near, call.args.far)
       IN  call' = [op |-> "determinant", args |-> call.args, m |-> m,
                    ret |-> mat4_determinant(m)]
    /\ UNCHANGED <<inputs_commanded, camera, camera_buf, input_settings,
                   ui_settings, mouse_in_gui, surface_cfg, last_frame>>

\* Mat4::new_perspective_rh(..).inverse().
CallPerspectiveInverse ==
    /\ call.op = "none"
    /\ LET m == new_perspective_rh(call.args.fov_y, call.args.aspect,
                                   call.args.near, call.args.far)
       IN  call' = [op |-> "inverse", args |-> call.args, m |-> m,
                    ret |-> mat4_inverse(m)]
    /\ UNCHANGED <<inputs_commanded, camera, camera_buf, input_settings,
                   ui_settings, mouse_in_gui, surface_cfg, last_frame>>

NextProj == CallPerspectiveDeterminant \/ CallPerspectiveInverse

SpecProj == InitProj /\ [][NextProj]_vars

\* C17: the determinant the code computes for a perspective matrix of a
\* well-formed camera is not zero, and the inverse of the matrix exists.
C17_PerspectiveInvertible ==
    /\ call.op = "determinant" => call.ret # f32_zero
    /\ call.op = "inverse" => call.ret.some


(***************************************************************************)
(* lin_alg.rs: rotating a vector by a quaternion and back.                 *)
(* A unit quaternion q is held as the integer quaternion 2q, so that the   *)
(* 24 units with components in {0, 1/2, 1, -1/2, -1} are covered.  The     *)
(* products of rotate_vec are linear in each factor: rotate_vec(2q, v) is  *)
(* 4 rotate_vec(q, v), and the round trip through 2q is 16 times the one   *)
(* through q.                                                              *)
(***************************************************************************)
\* Largest magnitude of a coordinate of a rotated vector.
MaxVec == 1

\* Twice the unit quaternions whose components are multiples of 1/2.
DoubledUnits ==
    {q \in [w : -2..2, x : -2..2, y : -2..2, z : -2..2] :
        q.w * q.w + q.x * q.x + q.y * q.y + q.z * q.z = 4}

RotatedVectors == [x : -MaxVec..MaxVec, y : -MaxVec..MaxVec, z : -MaxVec..MaxVec]

InitQuat ==
    /\ inputs_commanded = InputsDefault
    /\ camera = InitCamera
    /\ camera_buf = to_bytes(camera)
    /\ input_settings \in {st \in SystemSettings : st.initial_controls = "FreeCamera"}
    /\ ui_settings = [size |-> 1]
    /\ mouse_in_gui = FALSE
    /\ surface_cfg = InitSurface
    /\ last_frame = NoFrame
    /\ call \in {[op |-> "none", q2 |-> q, v |-> v] :
                    q \in DoubledUnits, v \in RotatedVectors}

\* q.rotate_vec(v), then q.inverse().rotate_vec(..) of the result.
CallRotateAndBack ==
    /\ call.op = "none"
    /\ LET rotated == rotate_vec(call.q2, call.v)
       IN  call' = [op |-> "rotate_and_back", q2 |-> call.q2, v |-> call.v,
                    rotated4 |-> rotated,
                    ret16 |-> rotate_vec(quat_inverse(call.q2), rotated)]
    /\ UNCHANGED <<inputs_commanded, camera, camera_buf, input_settings,
                   ui_settings, mouse_in_gui, surface_cfg, last_frame>>

NextQuat == CallRotateAndBack

SpecQuat == InitQuat /\ [][NextQuat]_vars

\* C18: rotating a vector by a unit quaternion and then by its inverse gives
\* the vector back (here 16 v, for the quaternion held doubled).
C18_RotateAndBack ==
    call.op = "rotate_and_back" => call.ret16 = vec_scale(call.v, 16)

\* The unit (1 + i + j + k) / 2, a third of a turn about (1, 1, 1), has
\* turned the x axis into the y axis and the round trip has been made.
C18_Witness ==
    /\ call.op = "rotate_and_back"
    /\ call.q2 = Quaternion(1, 1, 1, 1)
    /\ call.v = Vec3(1, 0, 0)
    /\ call.rotated4 = Vec3(0, 4, 0)


(***************************************************************************)
(* system.rs, window.rs, window_events.rs: the gate on device events.      *)
(* The event loop again, each handler whole, with `call` recording which   *)
(* handler ran last and whether it reached the application's               *)
(* event_handler.                                                          *)
(***************************************************************************)
\* The DeviceEvent arm without the test of mouse_in_gui.
device_event_ungated(event, choice, in_gui, inputs, settings, cam, buf) ==
    LET h == after_handler(choice, cam, buf)
    IN  [handled |-> TRUE,
         inputs |-> handle_input(event, inputs, settings),
         camera |-> h.camera, camera_buf |-> h.camera_buf]

\* The DeviceEvent arm of the loop: unless mouse_in_gui, event_handler and
\* its updates, then handle_input.
device_event(event, choice, in_gui, inputs, settings, cam, buf) ==
    IF ~in_gui
    THEN LET h == after_handler(choice, cam, buf)
         IN  [handled |-> TRUE,
              inputs |-> handle_input(event, inputs, settings),
              camera |-> h.camera, camera_buf |-> h.camera_buf]
    ELSE [handled |-> FALSE, inputs |-> inputs,
          camera |-> cam, camera_buf |-> buf]

\* Event::DeviceEvent.
GateDeviceEvent ==
    /\ \E event \in SystemEvents, choice \in AppChoices :
          \E r \in {device_event(event, choice, mouse_in_gui, inputs_commanded,
                                 input_settings, camera, camera_buf)} :
              /\ inputs_commanded' = r.inputs
              /\ InBounds(inputs_commanded')
              /\ camera' = r.camera
              /\ camera_buf' = r.camera_buf
              /\ call' = [op |-> "device_event", handled |-> r.handled,
                          event |-> event]
    /\ last_frame' = NoFrame
    /\ UNCHANGED <<input_settings, ui_settings, mouse_in_gui, surface_cfg>>

\* WindowEvent::CursorMoved.
GateCursorMoved ==
    /\ \E x \in 0..1 :
          /\ IF x < ui_settings.size
             THEN /\ mouse_in_gui' = TRUE
                  /\ inputs_commanded' = InputsDefault
             ELSE /\ mouse_in_gui' = FALSE
                  /\ UNCHANGED inputs_commanded
          /\ call' = [op |-> "cursor_moved", x |-> x]
    /\ last_frame' = NoFrame
    /\ UNCHANGED <<camera, camera_buf, input_settings, ui_settings, surface_cfg>>

\* WindowEvent::Occluded, Focused, and Resized to the size the surface has.
GateClearFreeLook ==
    /\ inputs_commanded' = [inputs_commanded EXCEPT !.free_look = FALSE]
    /\ call' = [op |-> "clear_free_look"]
    /\ last_frame' = NoFrame
    /\ UNCHANGED <<camera, camera_buf, input_settings, ui_settings,
                   mouse_in_gui, surface_cfg>>

\* WindowEvent::Moved.
GateMoved ==
    /\ mouse_in_gui' = TRUE
    /\ inputs_commanded' = [inputs_commanded EXCEPT !.free_look = FALSE]
    /\ call' = [op |-> "moved"]
    /\ last_frame' = NoFrame
    /\ UNCHANGED <<camera, camera_buf, input_settings, ui_settings, surface_cfg>>

\* Event::RedrawRequested, of frames that follow one another at once (dt
\* is zero: the camera turns and is uploaded but does not travel).
GateRedrawRequested ==
    /\ \E dt \in {0}, choice \in AppChoices, texture_ok \in BOOLEAN :
          \E h \in {after_handler(choice, camera, camera_buf)} :
              IF texture_ok
              THEN \E gui_choice \in AppChoices :
                      \E r \in {render(h.camera, h.camera_buf, inputs_commanded,
                                       input_settings, dt, gui_choice)} :
                          /\ camera' = r.camera
                          /\ camera_buf' = r.camera_buf
                          /\ inputs_commanded' = r.inputs
                          /\ last_frame' = r.frame
              ELSE /\ camera' = h.camera
                   /\ camera_buf' = h.camera_buf
                   /\ last_frame' = NoFrame
                   /\ UNCHANGED inputs_commanded
    /\ camera'.position \in Positions
    /\ call' = [op |-> "redraw"]
    /\ UNCHANGED <<input_settings, ui_settings, mouse_in_gui, surface_cfg>>

NextGate ==
    \/ GateDeviceEvent
    \/ GateCursorMoved
    \/ GateClearFreeLook
    \/ GateMoved
    \/ GateRedrawRequested

\* State::new and GraphicsState::new, of an application that chose the
\* free camera.
InitGate ==
    /\ inputs_commanded = InputsDefault
    /\ camera = InitCamera
    /\ camera_buf = to_bytes(InitCamera)
    /\ input_settings \in {st \in SystemSettings : st.initial_controls = "FreeCamera"}
    /\ ui_settings = [size |-> 1]
    /\ mouse_in_gui = FALSE
    /\ surface_cfg = InitSurface
    /\ last_frame = NoFrame
    /\ call = NoCall

SpecGate == InitGate /\ [][NextGate]_vars

\* C19: a device event that arrives while mouse_in_gui is set does not reach
\* event_handler and leaves inputs_commanded, the camera and its buffer as
\* they were, and only a cursor move outside the GUI strip clears
\* mouse_in_gui.
C19_GatedDeviceEventDropped ==
    [][/\ (mouse_in_gui /\ call'.op = "device_event") =>
             /\ ~call'.handled
             /\ UNCHANGED <<inputs_commanded, camera, camera_buf, mouse_in_gui>>
       /\ (mouse_in_gui /\ ~mouse_in_gui') =>
             /\ call'.op = "cursor_moved"
             /\ call'.x >= ui_settings.size]_vars

\* A device event has been dropped while the gate was closed.
C19_Witness ==
    /\ mouse_in_gui
    /\ call.op = "device_event"
    /\ ~call.handled


\* C20: whenever mouse_in_gui is set, no directional or roll flag of
\* inputs_commanded is set.
C20_GatedInputsHoldNoMotion ==
    mouse_in_gui =>
        \A f \in MotionFlags : ~inputs_commanded[f]


\* The inputs with the accumulated mouse motion taken away.
without_mouse_motion(inputs) ==
    [inputs EXCEPT !.mouse_delta_x = 0, !.mouse_delta_y = 0]

\* The mouse motion accumulated in inputs_commanded does not turn the
\* camera in a frame of any length.
MouseMotionTurnsNothing ==
    \A dt \in 1..MaxDt :
        adjust_camera(camera, inputs_commanded, input_settings, dt).cam.orientation
        = adjust_camera(camera, without_mouse_motion(inputs_commanded),
                        input_settings, dt).cam.orientation

\* C21: free_look is false right after a Resized, Moved, Occluded or Focused
\* window event; it becomes true only by a press of mouse button 0 that the
\* gate lets through; and a frame drawn while it is false finds no
\* accumulated mouse motion that turns the camera.
C21_FreeLookOffUntilAcceptedPress ==
    [][/\ call'.op \in {"clear_free_look", "moved"} =>
             ~inputs_commanded'.free_look
       /\ (~inputs_commanded.free_look /\ inputs_commanded'.free_look) =>
             /\ call'.op = "device_event"
             /\ call'.handled
             /\ call'.event = ButtonEvent(MOUSE_0_ID, "Pressed")
       /\ (call'.op = "redraw" /\ ~inputs_commanded.free_look) =>
             MouseMotionTurnsNothing]_vars

\* Mouse motion has accumulated after a window event cleared free_look and
\* before any press of button 0.
C21_Witness ==
    /\ call.op = "device_event"
    /\ call.handled
    /\ call.event.type = "MouseMotion"
    /\ ~inputs_commanded.free_look
    /\ inputs_commanded.mouse_delta_y = -3


(***************************************************************************)
(* graphics.rs, system.rs, camera.rs: the camera buffer at the draw        *)
(* submission.  The camera carries its projection fields and the buffer    *)
(* holds the uniform that was last written to it.                          *)
(***************************************************************************)
\* Camera::to_uniform.
to_uniform(cam) ==
    [position |-> cam.position,
     proj_view_mat |-> mat4_mul(cam.proj_mat, view_mat(cam)),
     proj_mat_inv |-> mat4_new_identity]

\* What a handler of the application does to the camera; whenever it does
\* something it returns EngineUpdates with camera set.
DrawChoices == {"none", "fov"}

draw_app_camera(choice, cam) ==
    CASE choice = "none" -> cam
      [] choice = "fov" -> update_proj_mat([cam EXCEPT !.fov_y = "wide"])

\* A handler call followed by `if engine_updates.camera { update_camera }`.
draw_after_handler(choice, cam, buf) ==
    LET c == draw_app_camera(choice, cam)
    IN  [camera |-> c,
         camera_buf |-> IF choice # "none" THEN to_uniform(c) ELSE buf]

\* The first statement of render, on a camera with projection fields.
draw_camera_step(cam, buf, inputs, settings, dt) ==
    IF camera_step_runs(inputs, settings)
    THEN LET r == adjust_camera(cam, inputs, settings, dt)
             c == [cam EXCEPT !.position = r.cam.position,
                              !.orientation = r.cam.orientation]
         IN  [camera |-> c, camera_buf |-> to_uniform(c),
              inputs |-> reset_mouse(inputs)]
    ELSE [camera |-> cam, camera_buf |-> buf, inputs |-> inputs]

\* State::new and GraphicsState::new: the buffer is created with the bytes
\* of the scene's camera.
InitDraw ==
    /\ inputs_commanded = InputsDefault
    /\ camera \in {update_proj_mat(c) :
                      c \in {sc \in SceneCameras :
                                sc.fov_y = "right" /\ sc.aspect = f32(4, 3)}}
    /\ camera_buf = to_uniform(camera)
    /\ input_settings \in {st \in SystemSettings : st.initial_controls = "FreeCamera"}
    /\ ui_settings = [layout |-> "Left", size |-> 1]
    /\ mouse_in_gui = FALSE
    /\ surface_cfg = InitSurface
    /\ last_frame = NoFrame
    /\ call = [op |-> "new"]

\* Event::DeviceEvent, of the W key.
DrawDeviceEvent ==
    /\ \E state \in ElementStates, choice \in DrawChoices :
          \E r \in {device_event(KeyEvent("KeyW", state), "none", mouse_in_gui,
                                 inputs_commanded, input_settings, camera,
                                 camera_buf)} :
              \E h \in {draw_after_handler(choice, camera, camera_buf)} :
                  /\ inputs_commanded' = r.inputs
                  /\ camera' = h.camera
                  /\ camera_buf' = h.camera_buf
    /\ call' = [op |-> "device_event"]
    /\ UNCHANGED <<input_settings, ui_settings, mouse_in_gui, surface_cfg,
                   last_frame>>

\* Event::RedrawRequested: render_handler and its updates, then render: the
\* camera step, gui_handler and its updates, the submission.
DrawRedrawRequested ==
    /\ \E dt \in 0..MaxDt, choice \in DrawChoices, texture_ok \in BOOLEAN :
          \E h \in {draw_after_handler(choice, camera, camera_buf)} :
              IF texture_ok
              THEN \E gui_choice \in DrawChoices :
                      \E s \in {draw_camera_step(h.camera, h.camera_buf,
                                    inputs_commanded, input_settings, dt)} :
                          \E g \in {draw_after_handler(gui_choice, s.camera,
                                                       s.camera_buf)} :
                              /\ camera' = g.camera
                              /\ camera_buf' = g.camera_buf
                              /\ inputs_commanded' = s.inputs
                              /\ call' = [op |-> "submit"]
              ELSE /\ camera' = h.camera
                   /\ camera_buf' = h.camera_buf
                   /\ call' = [op |-> "no_texture"]
                   /\ UNCHANGED inputs_commanded
    /\ camera'.position \in Positions
    /\ UNCHANGED <<input_settings, ui_settings, mouse_in_gui, surface_cfg,
                   last_frame>>

NextDraw == Resized \/ DrawDeviceEvent \/ DrawRedrawRequested

SpecDraw == InitDraw /\ [][NextDraw]_vars

\* C22: at every draw submission the camera buffer holds the uniform of the
\* scene's camera as it is then.
C22_BufferIsCameraAtSubmission ==
    call.op = "submit" => camera_buf = to_uniform(camera)


\* The inputs without the run modifier.
without_run(inputs) == [inputs EXCEPT !.run = FALSE]

\* The settings with the key sensitivities multiplied by run_factor and the
\* mouse sensitivity as it is.
keys_times_run_factor(settings) ==
    [settings EXCEPT !.move_sens = @ * settings.run_factor,
                     !.rotate_key_sens = @ * settings.run_factor]

vec_sub(a, b) == vec_add(a, vec_scale(b, -1))

\* C23: with run held, the displacement of a call is run_factor times the
\* displacement of the same call without run, the roll-key angle is
\* run_factor times the one without run, and the camera is the one the call
\* without run gives when move_sens and rotate_key_sens, but not rotate_sens,
\* are multiplied by run_factor.
C23_RunScalesKeysOnly ==
    (call.op = "adjust_camera" /\ inputs_commanded.run) =>
        LET slow == adjust_camera(call.before, without_run(inputs_commanded),
                                  input_settings, call.dt).cam
        IN  /\ vec_sub(camera.position, call.before.position)
               = vec_scale(vec_sub(slow.position, call.before.position),
                           input_settings.run_factor)
            /\ rotate_key_amt(inputs_commanded, input_settings, call.dt)
               = input_settings.run_factor
                 * rotate_key_amt(without_run(inputs_commanded), input_settings,
                                  call.dt)
            /\ camera = adjust_camera(call.before, without_run(inputs_commanded),
                                      keys_times_run_factor(input_settings),
                                      call.dt).cam

\* A call with run and forward held and a run factor of two has moved the
\* camera two units in a second.
C23_Witness ==
    /\ call.op = "adjust_camera"
    /\ call.dt = 1
    /\ inputs_commanded.run
    /\ inputs_commanded.fwd
    /\ input_settings.run_factor = 2
    /\ input_settings.move_sens = 1
    /\ call.before = [position |-> new_zero, orientation |-> new_identity]
    /\ camera.position = Vec3(0, 0, 2)


\* The rotation delta a call of adjust_camera builds from the camera it is
\* given.
rotation_delta(cam, inputs, settings, dt) ==
    look_rotation(inputs,
        rotate_vec(cam.orientation, vec_scale(UP_VEC, -1)),
        rotate_vec(cam.orientation, vec_scale(RIGHT_VEC, -1)),
        rotate_amt(settings, dt),
        roll_rotation(inputs, rotate_vec(cam.orientation, FWD_VEC),
                      rotate_key_amt(inputs, settings, dt)))

\* C24: when a call commands both movement and rotation, the position is
\* advanced by the movement vector rotated through the orientation the
\* camera had before the call, and the orientation becomes the rotation
\* delta times the old orientation.
C24_MoveThroughOldThenLeftMultiply ==
    (call.op = "adjust_camera" /\ cam_moved(inputs_commanded)
     /\ cam_rotated(inputs_commanded)) =>
        /\ camera.position =
              vec_add(call.before.position,
                      rotate_vec(call.before.orientation,
                          movement_vec(inputs_commanded,
                              move_amt(inputs_commanded, input_settings, call.dt))))
        /\ camera.orientation =
              quat_mul(rotation_delta(call.before, inputs_commanded,
                                      input_settings, call.dt),
                       call.before.orientation)

\* A call moved and rolled a camera for which the order matters: the delta
\* on the right would give another orientation, and the new orientation
\* would carry the movement elsewhere.
C24_Witness ==
    /\ call.op = "adjust_camera"
    /\ cam_moved(inputs_commanded)
    /\ cam_rotated(inputs_commanded)
    /\ LET delta == rotation_delta(call.before, inputs_commanded,
                                   input_settings, call.dt)
           mv == movement_vec(inputs_commanded,
                     move_amt(inputs_commanded, input_settings, call.dt))
       IN  /\ quat_mul(call.before.orientation, delta) # camera.orientation
           /\ vec_add(call.before.position, rotate_vec(camera.orientation, mv))
              # camera.position


(***************************************************************************)
(* lin_alg.rs, input.rs: the length of a product of quaternions.           *)
(***************************************************************************)
\* Largest magnitude of a component of a multiplied quaternion.
MaxComp == 1

\* The quaternions that are multiplied: all with integer components.
QuatOperands ==
    [w : -MaxComp..MaxComp, x : -MaxComp..MaxComp,
     y : -MaxComp..MaxComp, z : -MaxComp..MaxComp]

\* Either one product of two quaternions, or a camera that is turned again
\* and again.
InitNorm ==
    /\ inputs_commanded = InputsDefault
    /\ camera = InitCamera
    /\ camera_buf = to_bytes(camera)
    /\ input_settings \in {st \in SystemSettings : st.initial_controls = "FreeCamera"}
    /\ ui_settings = [size |-> 1]
    /\ mouse_in_gui = FALSE
    /\ surface_cfg = InitSurface
    /\ last_frame = NoFrame
    /\ call \in {[op |-> "none", p |-> p, q |-> q] :
                    p \in QuatOperands, q \in QuatOperands}
                \cup {[op |-> "turning"]}

\* p * q.
CallQuatMul ==
    /\ call.op = "none"
    /\ call' = [op |-> "mul", p |-> call.p, q |-> call.q,
                ret |-> quat_mul(call.p, call.q)]
    /\ UNCHANGED <<inputs_commanded, camera, camera_buf, input_settings,
                   ui_settings, mouse_in_gui, surface_cfg, last_frame>>

\* adjust_camera: cam.orientation = rotation * cam.orientation, for a unit
\* rotation.
TurnCamera ==
    /\ call.op = "turning"
    /\ \E rotation \in Orientations :
          camera' = [camera EXCEPT !.orientation = quat_mul(rotation, @)]
    /\ UNCHANGED <<inputs_commanded, camera_buf, input_settings, ui_settings,
                   mouse_in_gui, surface_cfg, last_frame, call>>

NextNorm == CallQuatMul \/ TurnCamera

SpecNorm == InitNorm /\ [][NextNorm]_vars

\* The squared magnitude of a quaternion.
norm_squared(q) == q.w * q.w + q.x * q.x + q.y * q.y + q.z * q.z

\* C25: the squared magnitude of p * q is the product of the squared
\* magnitudes of p and q, and the orientation of a camera turned by unit
\* rotations on the left stays a unit quaternion.
C25_ProductOfMagnitudes ==
    /\ call.op = "mul" =>
          norm_squared(call.ret) = norm_squared(call.p) * norm_squared(call.q)
    /\ call.op = "turning" => norm_squared(camera.orientation) = 1

\* Two quaternions of squared magnitude three that do not commute have been
\* multiplied.
C25_Witness ==
    /\ call.op = "mul"
    /\ call.p = Quaternion(1, 1, 0, -1)
    /\ call.q = Quaternion(0, 1, 1, 1)
    /\ norm_squared(call.ret) = 9
    /\ call.ret # quat_mul(call.q, call.p)


(***************************************************************************)
(* graphics.rs: setup_entities.  A mesh is its number of vertices, an      *)
(* entity the index of its mesh, an instance the entity (its place in      *)
(* scene.entities) it was made from.                                       *)
(***************************************************************************)
\* Largest number of meshes, of vertices of a mesh, and of entities.
MaxMeshes == 2

MaxVertices == 2

MaxEntities == 3

\* The sequences over a set with at most n elements.
SeqsUpTo(S, n) == UNION {[1..k -> S] : k \in 0..n}

\* scene.entities.iter().filter(|e| e.mesh == i), as places in the sequence.
entities_of_mesh(entities, i) ==
    SelectSeq([k \in 1..Len(entities) |-> k], LAMBDA k : entities[k] = i)

RECURSIVE setup_entities_same_start_from(_, _, _, _, _, _, _)
\* The loop of setup_entities with the instance start never advanced.
setup_entities_same_start_from(meshes, entities, i, instances, mesh_mappings, vertex_start, instance_start) ==
    IF i = Len(meshes)
    THEN [instances |-> instances, mesh_mappings |-> mesh_mappings]
    ELSE LET made == entities_of_mesh(entities, i)
             instance_count_this_mesh == Len(made)
         IN  setup_entities_same_start_from(meshes, entities, i + 1,
                 instances \o made,
                 Append(mesh_mappings,
                        <<vertex_start, instance_start, instance_count_this_mesh>>),
                 vertex_start + meshes[i + 1],
                 instance_start)

setup_entities_same_start(meshes, entities) ==
    setup_entities_same_start_from(meshes, entities, 0, <<>>, <<>>, 0, 0)

RECURSIVE setup_entities_from(_, _, _, _, _, _, _)
\* The loop of setup_entities from mesh i (from 0) on; vertex_start and
\* instance_start are vertex_start_this_mesh and instance_start_this_mesh.
setup_entities_from(meshes, entities, i, instances, mesh_mappings, vertex_start, instance_start) ==
    IF i = Len(meshes)
    THEN [instances |-> instances, mesh_mappings |-> mesh_mappings]
    ELSE LET made == entities_of_mesh(entities, i)
             instance_count_this_mesh == Len(made)
         IN  setup_entities_from(meshes, entities, i + 1, instances \o made,
                 Append(mesh_mappings,
                        <<vertex_start, instance_start, instance_count_this_mesh>>),
                 vertex_start + meshes[i + 1],
                 instance_start + instance_count_this_mesh)

\* GraphicsState::setup_entities: the instances of the instance buffer and
\* mesh_mappings.
setup_entities(meshes, entities) ==
    setup_entities_from(meshes, entities, 0, <<>>, <<>>, 0, 0)

\* Scenes: up to MaxMeshes meshes, up to MaxEntities entities whose mesh
\* index may be one there is no mesh for.
InitEntities ==
    /\ inputs_commanded = InputsDefault
    /\ camera = InitCamera
    /\ camera_buf = to_bytes(camera)
    /\ input_settings \in {st \in SystemSettings : st.initial_controls = "FreeCamera"}
    /\ ui_settings = [size |-> 1]
    /\ mouse_in_gui = FALSE
    /\ surface_cfg = InitSurface
    /\ last_frame = NoFrame
    /\ call \in {[op |-> "none", meshes |-> ms, entities |-> es] :
                    ms \in SeqsUpTo(1..MaxVertices, MaxMeshes),
                    es \in SeqsUpTo(0..MaxMeshes, MaxEntities)}

CallSetupEntities ==
    /\ call.op = "none"
    /\ LET r == setup_entities(call.meshes, call.entities)
       IN  call' = [op |-> "setup_entities", meshes |-> call.meshes,
                    entities |-> call.entities, instances |-> r.instances,
                    mesh_mappings |-> r.mesh_mappings]
    /\ UNCHANGED <<inputs_commanded, camera, camera_buf, input_settings,
                   ui_settings, mouse_in_gui, surface_cfg, last_frame>>

NextEntities == CallSetupEntities

SpecEntities == InitEntities /\ [][NextEntities]_vars

RECURSIVE SumOfFirst(_, _)
\* s[1] + ... + s[n].
SumOfFirst(s, n) == IF n = 0 THEN 0 ELSE SumOfFirst(s, n - 1) + s[n]

\* C26: after setup_entities there is one mapping per mesh; the instance
\* ranges follow one another from 0, each as long as the number of entities
\* of its mesh, and the vertex start of a mesh is the number of vertices of
\* the meshes before it; every instance lies in the range of the mesh of its
\* entity, every entity of a mesh has one instance, and an entity of no mesh
\* has none.
C26_MeshMappingsPartitionInstances ==
    call.op = "setup_entities" =>
        LET n == Len(call.meshes)
            mm == call.mesh_mappings
            counts == [i \in 1..n |-> mm[i][3]]
        IN  /\ Len(mm) = n
            /\ \A i \in 1..n :
                  /\ mm[i][1] = SumOfFirst(call.meshes, i - 1)
                  /\ mm[i][2] = SumOfFirst(counts, i - 1)
                  /\ mm[i][3] = Cardinality({k \in 1..Len(call.entities) :
                                               call.entities[k] = i - 1})
            /\ Len(call.instances) = SumOfFirst(counts, n)
            /\ \A at \in 1..Len(call.instances) :
                  \E i \in 1..n :
                      /\ mm[i][2] < at
                      /\ at <= mm[i][2] + mm[i][3]
                      /\ call.entities[call.instances[at]] = i - 1
            /\ \A k \in 1..Len(call.entities) :
                  Cardinality({at \in 1..Len(call.instances) :
                                  call.instances[at] = k})
                  = IF call.entities[k] < n THEN 1 ELSE 0

\* Two meshes, the second with two entities listed around one of the first
\* and one entity of a mesh that is not there.
C26_Witness ==
    /\ call.op = "setup_entities"
    /\ call.meshes = <<2, 1>>
    /\ call.entities = <<1, 0, 2>>
    /\ call.mesh_mappings = <<<<0, 0, 1>>, <<2, 1, 1>>>>
    /\ call.instances = <<2, 1>>

(***************************************************************************)
(* lighting.rs, graphics.rs: the lighting storage buffer.  The buffer is   *)
(* created once, from the bytes of the scene's lighting; update_lighting   *)
(* writes the bytes of the current lighting at offset 0.                   *)
(***************************************************************************)
MaxLights == 3

VEC3_UNIFORM_SIZE == 4 * F32_SIZE

LIGHTING_SIZE_FIXED == VEC3_UNIFORM_SIZE + F32_SIZE + 12

POINT_LIGHT_SIZE == 3 * VEC3_UNIFORM_SIZE + 2 * F32_SIZE + 8

\* array4_to_bytes: the four floats in order.
array4_to_bytes(a) ==
    to_le_bytes(a[1]) \o to_le_bytes(a[2]) \o to_le_bytes(a[3]) \o to_le_bytes(a[4])

\* i32::to_le_bytes of a length.
i32_to_le_bytes(n) ==
    <<n % 256, (n \div 256) % 256, (n \div 65536) % 256, (n \div 16777216) % 256>>

zero_bytes(n) == [i \in 1..n |-> 0]

\* PointLight::to_bytes: position (padded to four floats), diffuse_color,
\* specular_color, diffuse_intensity, specular_intensity, eight bytes of
\* padding.
point_light_to_bytes(light) ==
    to_le_bytes(as_f32(light.position.x)) \o to_le_bytes(as_f32(light.position.y))
        \o to_le_bytes(as_f32(light.position.z)) \o zero_bytes(F32_SIZE)
        \o array4_to_bytes(light.diffuse_color)
        \o array4_to_bytes(light.specular_color)
        \o to_le_bytes(light.diffuse_intensity)
        \o to_le_bytes(light.specular_intensity)
        \o zero_bytes(8)

RECURSIVE point_lights_to_bytes(_)
point_lights_to_bytes(lights) ==
    IF lights = <<>>
    THEN <<>>
    ELSE point_light_to_bytes(Head(lights)) \o point_lights_to_bytes(Tail(lights))

\* Lighting::to_bytes: the fixed block (ambient_color, ambient_intensity,
\* the number of point lights, eight bytes of padding), then each light.
lighting_to_bytes(lighting) ==
    array4_to_bytes(lighting.ambient_color)
        \o to_le_bytes(lighting.ambient_intensity)
        \o i32_to_le_bytes(Len(lighting.point_lights))
        \o zero_bytes(8)
        \o point_lights_to_bytes(lighting.point_lights)

\* A point light as Lighting::default makes it, with an intensity.
PointLightOf(intensity) ==
    [position |-> [x |-> 0, y |-> 0, z |-> 0],
     diffuse_color |-> <<f32_one, f32_one, f32_one, f32(1, 2)>>,
     specular_color |-> <<f32_one, f32_one, f32_one, f32(1, 2)>>,
     diffuse_intensity |-> as_f32(intensity),
     specular_intensity |-> as_f32(intensity)]

PointLights == {PointLightOf(1), PointLightOf(2)}

LightingOf(lights) ==
    [ambient_color |-> <<f32_one, f32_one, f32_one, f32(1, 2)>>,
     ambient_intensity |-> f32(1, 8),
     point_lights |-> lights]

\* A write of bytes at offset 0 of a buffer: wgpu rejects a write that ends
\* past the buffer's size, and the buffer keeps its contents.
write_buffer(buf, bytes) ==
    IF Len(bytes) > Len(buf)
    THEN buf
    ELSE [i \in 1..Len(buf) |-> IF i <= Len(bytes) THEN bytes[i] ELSE buf[i]]

\* GraphicsState::update_lighting.
update_lighting(buf, lighting) == write_buffer(buf, lighting_to_bytes(lighting))

\* The scene the application hands to GraphicsState::new, and the buffer
\* made from its lighting.
InitLighting ==
    /\ inputs_commanded = InputsDefault
    /\ camera = InitCamera
    /\ camera_buf = to_bytes(camera)
    /\ input_settings \in {st \in SystemSettings : st.initial_controls = "FreeCamera"}
    /\ ui_settings = [size |-> 1]
    /\ mouse_in_gui = FALSE
    /\ surface_cfg = InitSurface
    /\ last_frame = NoFrame
    /\ \E lights \in SeqsUpTo(PointLights, MaxLights - 1) :
          call = [op |-> "new", lighting |-> LightingOf(lights),
                  lighting_buf |-> lighting_to_bytes(LightingOf(lights)),
                  written |-> 0]

\* What a handler does to scene.lighting.point_lights.
LightingChanges(lights) ==
    {lights}
        \cup {Append(lights, l) : l \in {l \in PointLights : Len(lights) < MaxLights}}
        \cup {SubSeq(lights, 1, Len(lights) - 1) : k \in {k \in {1} : lights # <<>>}}

\* A handler (event, render or GUI) changes the lights and reports
\* engine_updates.lighting; the engine then runs update_lighting.
LightingHandler ==
    /\ \E lights \in LightingChanges(call.lighting.point_lights), reported \in BOOLEAN :
          LET lighting == LightingOf(lights)
          IN  call' = IF reported
                      THEN [op |-> "update_lighting", lighting |-> lighting,
                            lighting_buf |-> update_lighting(call.lighting_buf, lighting),
                            written |-> Len(lighting_to_bytes(lighting))]
                      ELSE [op |-> "handler", lighting |-> lighting,
                            lighting_buf |-> call.lighting_buf,
                            written |-> 0]
    /\ UNCHANGED <<inputs_commanded, camera, camera_buf, input_settings,
                   ui_settings, mouse_in_gui, surface_cfg, last_frame>>

NextLighting == LightingHandler

SpecLighting == InitLighting /\ [][NextLighting]_vars

\* C27: every update_lighting write fits inside the lighting buffer made at
\* initialisation: the bytes written (32 + 64 per point light) are never
\* more than the size the buffer was created with.
C27_WriteFitsLightingBuffer ==
    call.op = "update_lighting" =>
        /\ call.written = LIGHTING_SIZE_FIXED
                          + POINT_LIGHT_SIZE * Len(call.lighting.point_lights)
        /\ call.written <= Len(call.lighting_buf)

(***************************************************************************)
(* system.rs: the aspect a resize leaves.                                  *)
(***************************************************************************)
\* f32::is_finite.
is_finite(x) == x[2] # 0

\* C28: after any sequence of resizes, for every UI layout and strip size,
\* camera.aspect is finite and above zero, and every accepted resize (width
\* and height above zero) has an effective width and an effective height
\* above zero.
C28_AspectFinitePositive ==
    /\ is_finite(camera.aspect) /\ camera.aspect[1] > 0
    /\ AfterResize =>
          LET eff == resize_eff_size(ui_settings, call.width, call.height)
          IN  eff.eff_width[1] > 0 /\ eff.eff_height[1] > 0

(***************************************************************************)
(* meshes.rs: the mesh constructors.  A vertex is named by where it comes  *)
(* from (its place in the grid, its ring, its face); positions and normals *)
(* are left out.  An index is a usize: a negative number -d stands for the *)
(* wrapped value 2^w - d, which is above every vertex count.  A            *)
(* subtraction below zero panics in a build with overflow checks and wraps *)
(* in one without.                                                         *)
(***************************************************************************)
MaxSides == 5

MaxLats == 4

MaxLons == 4

MaxRows == 4

MaxCols == 3

MaxVals == 2

Builds == {"overflow_checks", "wrapping"}

\* What a constructor leaves: the mesh, or the panic that ended it.
mesh_of(build, overflow, vertices, indices) ==
    IF overflow /\ build = "overflow_checks"
    THEN [panic |-> "subtract with overflow", vertices |-> <<>>, indices |-> <<>>]
    ELSE [panic |-> "none", vertices |-> vertices, indices |-> indices]

\* The six indices of the two triangles of a four-cornered face.
face_indices(f) == <<f[1], f[2], f[3], f[1], f[3], f[4]>>

RECURSIVE faces_to_indices(_)
faces_to_indices(faces) ==
    IF faces = <<>>
    THEN <<>>
    ELSE face_indices(Head(faces)) \o faces_to_indices(Tail(faces))

\* Mesh::new_box: four vertices for each of six faces.
new_box(build) ==
    LET vertices == <<"abl_aft", "abr_aft", "atr_aft", "atl_aft",
                      "fbl_fwd", "ftl_fwd", "ftr_fwd", "fbr_fwd",
                      "fbl_l", "abl_l", "atl_l", "ftl_l",
                      "abr_r", "fbr_r", "ftr_r", "atr_r",
                      "atl_t", "atr_t", "ftr_t", "ftl_t",
                      "abl_b", "fbl_b", "fbr_b", "abr_b">>
        faces == <<<<0, 1, 2, 3>>, <<4, 5, 6, 7>>, <<8, 9, 10, 11>>,
                   <<12, 13, 14, 15>>, <<16, 17, 18, 19>>, <<20, 21, 22, 23>>>>
    IN  mesh_of(build, FALSE, vertices, faces_to_indices(faces))

\* Mesh::new_tetrahedron: three vertices for each of four faces.
new_tetrahedron(build) ==
    LET vertices == <<"v0_n0", "v2_n0", "v1_n0", "v0_n1", "v1_n1", "v3_n1",
                      "v0_n2", "v3_n2", "v2_n2", "v1_n3", "v2_n3", "v3_n3">>
    IN  mesh_of(build, FALSE, vertices, <<0, 1, 2, 3, 4, 5, 6, 7, 8, 9, 10, 11>>)

\* Mesh::new_cylinder, the loop over the sides: two triangles and two
\* vertices for each vertex of the circle.  st is vertices, indices, i_vertex.
RECURSIVE cylinder_sides(_, _, _)
cylinder_sides(j, num_sides, st) ==
    IF j = num_sides
    THEN st
    ELSE LET mod_ == 2 * num_sides
             i_vertex == st.i_vertex
         IN  cylinder_sides(j + 1, num_sides,
                [vertices |-> st.vertices \o <<<<"side_top", j>>, <<"side_bottom", j>>>>,
                 indices |-> st.indices
                     \o <<i_vertex, i_vertex + 1, (i_vertex + 2) % mod_>>
                     \o <<i_vertex + 1, (i_vertex + 3) % mod_, (i_vertex + 2) % mod_>>,
                 i_vertex |-> i_vertex + 2])

\* Mesh::new_cylinder, the loop over the caps.
RECURSIVE cylinder_caps(_, _, _, _, _)
cylinder_caps(j, num_sides, top_anchor, bottom_anchor, st) ==
    IF j = num_sides
    THEN st
    ELSE LET i_vertex == st.i_vertex
             cap == IF j # 0 /\ j # num_sides - 1
                    THEN <<top_anchor, i_vertex, i_vertex + 2>>
                             \o <<bottom_anchor, i_vertex + 3, i_vertex + 1>>
                    ELSE <<>>
         IN  cylinder_caps(j + 1, num_sides, top_anchor, bottom_anchor,
                [vertices |-> st.vertices \o <<<<"cap_top", j>>, <<"cap_bottom", j>>>>,
                 indices |-> st.indices \o cap,
                 i_vertex |-> i_vertex + 2])

\* Mesh::new_cylinder.
new_cylinder(num_sides, build) ==
    LET sides == cylinder_sides(0, num_sides,
                    [vertices |-> <<>>, indices |-> <<>>, i_vertex |-> 0])
        caps == cylinder_caps(0, num_sides, sides.i_vertex, sides.i_vertex + 1, sides)
    IN  mesh_of(build, num_sides < 1, caps.vertices, caps.indices)

\* Mesh::new_sphere, the faces on the bottom vertex.
RECURSIVE sphere_bottom(_, _, _)
sphere_bottom(k, num_lons, indices) ==
    IF k = num_lons
    THEN indices
    ELSE sphere_bottom(k + 1, num_lons,
            indices \o (IF k = num_lons - 1
                        THEN <<0, k + 2 - num_lons, k + 1>>
                        ELSE <<0, k + 2, k + 1>>))

\* Mesh::new_sphere, one ring of latitude i.  st is vertices, faces,
\* current_i.
RECURSIVE sphere_lons(_, _, _, _, _)
sphere_lons(i, j, num_lats, num_lons, st) ==
    IF j = num_lons
    THEN st
    ELSE LET current_i == st.current_i
             face == IF i < num_lats - 1
                     THEN IF j = num_lons - 1
                          THEN <<<<current_i, current_i + 1 - num_lons,
                                   current_i + 1, current_i + num_lons>>>>
                          ELSE <<<<current_i, current_i + 1,
                                   current_i + num_lons + 1, current_i + num_lons>>>>
                     ELSE <<>>
         IN  sphere_lons(i, j + 1, num_lats, num_lons,
                [vertices |-> Append(st.vertices, <<"ring", i, j>>),
                 faces |-> st.faces \o face,
                 current_i |-> current_i + 1])

\* Mesh::new_sphere, the rings 1..num_lats - 1.
RECURSIVE sphere_lats(_, _, _, _)
sphere_lats(i, num_lats, num_lons, st) ==
    IF i >= num_lats
    THEN st
    ELSE sphere_lats(i + 1, num_lats, num_lons,
                     sphere_lons(i, 0, num_lats, num_lons, st))

\* Mesh::new_sphere, the faces on the top vertex.
RECURSIVE sphere_top(_, _, _, _, _)
sphere_top(k, num_lons, current_i, top_ring_start_i, indices) ==
    IF k = num_lons
    THEN indices
    ELSE sphere_top(k + 1, num_lons, current_i, top_ring_start_i,
            indices \o (IF k = num_lons - 1
                        THEN <<current_i, top_ring_start_i + k, top_ring_start_i>>
                        ELSE <<current_i, top_ring_start_i + k,
                               top_ring_start_i + k + 1>>))

\* Mesh::new_sphere.
new_sphere(num_lats, num_lons, build) ==
    LET bottom == sphere_bottom(0, num_lons, <<>>)
        rings == sphere_lats(1, num_lats, num_lons,
                    [vertices |-> <<"bottom">>, faces |-> <<>>, current_i |-> 1])
        current_i == rings.current_i
        top_ring_start_i == current_i - num_lons
        top == sphere_top(0, num_lons, current_i, top_ring_start_i, bottom)
    IN  mesh_of(build, num_lons < 1 \/ num_lats < 1 \/ current_i < num_lons,
                Append(rings.vertices, "top"),
                top \o faces_to_indices(rings.faces))

\* A rectangular grid: rows outer vectors of cols vectors of vals points,
\* each point named by its place.
GridOf(rows, cols, vals) ==
    [i \in 1..rows |-> [j \in 1..cols |-> [k \in 1..vals |-> <<i - 1, j - 1, k - 1>>]]]

\* Mesh::new_surface, the body of the innermost loop for points[i][j][k].
\* st is vertices, indices, this_vert_i, overflow.
surface_point(points, i, j, k, st) ==
    LET rows == points[i + 1]
        this_vert_i == st.this_vert_i
        upper == IF i # Len(points) - 1 /\ j # Len(rows) - 1
                 THEN <<this_vert_i, this_vert_i + Len(points), this_vert_i + 1>>
                 ELSE <<>>
        lower == IF i # 0 /\ j # 0
                 THEN <<this_vert_i, this_vert_i - Len(points), this_vert_i - 1>>
                 ELSE <<>>
    IN  [vertices |-> Append(st.vertices, rows[j + 1][k + 1]),
         indices |-> st.indices \o upper \o lower,
         this_vert_i |-> this_vert_i + 1,
         overflow |-> st.overflow \/ (i # 0 /\ j # 0 /\ this_vert_i < Len(points))]

RECURSIVE surface_vals(_, _, _, _, _)
surface_vals(points, i, j, k, st) ==
    IF k = Len(points[i + 1][j + 1])
    THEN st
    ELSE surface_vals(points, i, j, k + 1, surface_point(points, i, j, k, st))

RECURSIVE surface_rows(_, _, _, _)
surface_rows(points, i, j, st) ==
    IF j = Len(points[i + 1])
    THEN st
    ELSE surface_rows(points, i, j + 1, surface_vals(points, i, j, 0, st))

RECURSIVE surface_points(_, _, _)
surface_points(points, i, st) ==
    IF i = Len(points)
    THEN st
    ELSE surface_points(points, i + 1, surface_rows(points, i, 0, st))

\* vertices[index]: whether the index is one of the vector's.
in_range(index, len) == 0 <= index /\ index < len

\* Mesh::new_surface, the second side: the vertices again, and each triangle
\* in the opposite order, orig_vert_len further on.
RECURSIVE other_side(_, _)
other_side(indices, orig_vert_len) ==
    IF indices = <<>>
    THEN <<>>
    ELSE <<indices[1] + orig_vert_len, indices[3] + orig_vert_len,
           indices[2] + orig_vert_len>>
             \o other_side(SubSeq(indices, 4, Len(indices)), orig_vert_len)

\* Mesh::new_surface.  The loop over the normals reads vertices[indices[..]]
\* for each triangle, and panics at an index that is not one of vertices.
new_surface(points, two_sided, build) ==
    LET st == surface_points(points, 0,
                 [vertices |-> <<>>, indices |-> <<>>, this_vert_i |-> 0,
                  overflow |-> FALSE])
        orig_vert_len == Len(st.vertices)
    IN  IF st.overflow /\ build = "overflow_checks"
        THEN mesh_of(build, TRUE, <<>>, <<>>)
        ELSE IF \E at \in 1..Len(st.indices) : ~in_range(st.indices[at], orig_vert_len)
             THEN [panic |-> "index out of bounds", vertices |-> <<>>, indices |-> <<>>]
             ELSE IF two_sided
                  THEN mesh_of(build, FALSE,
                               st.vertices \o [n \in 1..orig_vert_len |->
                                                  <<"other_side", st.vertices[n]>>],
                               st.indices \o other_side(st.indices, orig_vert_len))
                  ELSE mesh_of(build, FALSE, st.vertices, st.indices)

\* The constructor to call and its arguments.
InitMeshes ==
    /\ inputs_commanded = InputsDefault
    /\ camera = InitCamera
    /\ camera_buf = to_bytes(camera)
    /\ input_settings \in {st \in SystemSettings : st.initial_controls = "FreeCamera"}
    /\ ui_settings = [size |-> 1]
    /\ mouse_in_gui = FALSE
    /\ surface_cfg = InitSurface
    /\ last_frame = NoFrame
    /\ call \in
          {[op |-> "none", mesh |-> "box", build |-> b] : b \in Builds}
          \cup {[op |-> "none", mesh |-> "tetrahedron", build |-> b] : b \in Builds}
          \cup {[op |-> "none", mesh |-> "cylinder", build |-> b, num_sides |-> n] :
                   b \in Builds, n \in 3..MaxSides}
          \cup {[op |-> "none", mesh |-> "sphere", build |-> b,
                 num_lats |-> lats, num_lons |-> lons] :
                   b \in Builds, lats \in 2..MaxLats, lons \in 3..MaxLons}
          \cup {[op |-> "none", mesh |-> "surface", build |-> b,
                 rows |-> r, cols |-> c, vals |-> v, two_sided |-> t] :
                   b \in Builds, r \in 1..MaxRows, c \in 1..MaxCols,
                   v \in 1..MaxVals, t \in BOOLEAN}

Built(args, mesh) ==
    [op |-> "built", args |-> args, panic |-> mesh.panic,
     vertices |-> mesh.vertices, indices |-> mesh.indices]

MeshFrame ==
    UNCHANGED <<inputs_commanded, camera, camera_buf, input_settings,
                ui_settings, mouse_in_gui, surface_cfg, last_frame>>

CallNewBox ==
    /\ call.op = "none" /\ call.mesh = "box"
    /\ call' = Built(call, new_box(call.build))
    /\ MeshFrame

CallNewTetrahedron ==
    /\ call.op = "none" /\ call.mesh = "tetrahedron"
    /\ call' = Built(call, new_tetrahedron(call.build))
    /\ MeshFrame

CallNewCylinder ==
    /\ call.op = "none" /\ call.mesh = "cylinder"
    /\ call' = Built(call, new_cylinder(call.num_sides, call.build))
    /\ MeshFrame

CallNewSphere ==
    /\ call.op = "none" /\ call.mesh = "sphere"
    /\ call' = Built(call, new_sphere(call.num_lats, call.num_lons, call.build))
    /\ MeshFrame

CallNewSurface ==
    /\ call.op = "none" /\ call.mesh = "surface"
    /\ call' = Built(call, new_surface(GridOf(call.rows, call.cols, call.vals),
                                       call.two_sided, call.build))
    /\ MeshFrame

NextMeshes ==
    \/ CallNewBox
    \/ CallNewTetrahedron
    \/ CallNewCylinder
    \/ CallNewSphere
    \/ CallNewSurface

SpecMeshes == InitMeshes /\ [][NextMeshes]_vars

\* C29: every mesh constructor (box, tetrahedron, cylinder of three sides or
\* more, sphere of two latitudes and three longitudes or more, surface of a
\* non-empty rectangular grid) ends without a panic, with a number of
\* indices that is a multiple of 3, each index below the number of vertices.
C29_ConstructorsIndexInRange ==
    call.op = "built" =>
        /\ call.panic = "none"
        /\ Len(call.indices) % 3 = 0
        /\ \A at \in 1..Len(call.indices) :
              in_range(call.indices[at], Len(call.vertices))

====
